---- MODULE Spec2Model ----
(***************************************************************************)
(* TRIAS client (src/trias_client.py) and its stop cache.                  *)
(*                                                                         *)
(* Strings are sequences of code points, compared the way Python compares  *)
(* str values.  An optional value (Python None, or a missing dict key) is  *)
(* the empty tuple; a present value x is the one-element tuple <<x>>.      *)
(***************************************************************************)
EXTENDS Integers, Sequences, FiniteSets, TLC

VARIABLES now, stop_cache, cache_timestamp, file, call, ret,
          cache_build_progress, threads

\* the state of the Flask application (src/app.py): the progress dict of the
\* batch refresh, and the threads it has started
app == <<cache_build_progress, threads>>

vars == <<now, stop_cache, cache_timestamp, file, call, ret, app>>

----------------------------------------------------------------------------
(* Optional values *)

None == <<>>

Some(x) == <<x>>

Val(o) == o[1]

----------------------------------------------------------------------------
(* Records.  Every record is built by one of these constructors, and each  *)
(* constructor lists its fields in the order in which the field names      *)
(* first appear in this module, which is the order TLC keeps them in.      *)
(***************************************************************************)

\* what an operation gives: a list, None, or a raised exception
Result(kind, v) == [kind |-> kind, v |-> v]

\* the outcome of the operation performed last.  net: whether it sent a
\* request to the upstream service; added: how many stops _add_to_cache
\* appended; saved: whether _save_stop_cache ran
Ret(result, net, added, saved) ==
    [kind |-> result.kind, v |-> result.v, net |-> net, added |-> added,
     saved |-> saved]

\* the operation performed last, and its arguments
Call(op, query, limit) == [op |-> op, query |-> query, limit |-> limit]

\* a run of _load_stop_cache at the instant at
LoadCall(at) == [op |-> "load", at |-> at]

\* a response that awaits parsing, and a run of _parse_location_results on it;
\* raw are its LocationResult elements
Received(raw) == [op |-> "received", raw |-> raw]

ParseCall(raw) == [op |-> "_parse_location_results", raw |-> raw]

\* the text of a coordinate element: ok says float() accepts it, v is the
\* number
Number(v, ok) == [v |-> v, ok |-> ok]

\* a StopRecord dict; distance is None while the key is absent
StopRecord(stop_id, stop_ids, stop_name, locality, longitude, latitude, platforms, distance) ==
    [stop_id |-> stop_id, stop_ids |-> stop_ids, stop_name |-> stop_name,
     locality |-> locality, longitude |-> longitude, latitude |-> latitude,
     platforms |-> platforms, distance |-> distance]

\* the flat result dict built for one LocationResult element
FlatRecord(stop_id, stop_name, locality, longitude, latitude) ==
    [stop_id |-> stop_id, stop_name |-> stop_name, locality |-> locality,
     longitude |-> longitude, latitude |-> latitude]

\* an entry of the grouping dict: stop_id is the list of platform ids
GroupRecord(stop_id, stop_name, locality, longitude, latitude, platforms) ==
    [stop_id |-> stop_id, stop_name |-> stop_name, locality |-> locality,
     longitude |-> longitude, latitude |-> latitude, platforms |-> platforms]

\* a LocationResult element of the response:
\*   kind      "StopPoint" | "StopPlace" | "Address" (a Location with
\*             neither stop child) | "NoLocation" (no Location child)
\*   refElem   whether the StopPointRef / StopPlaceRef child exists
\*   ref       its text (None for an empty element)
\*   name      text of StopPointName/Text or StopPlaceName/Text
\*   location_name  text of LocationName/Text
\*   lon, lat  text of the Longitude and Latitude elements: None when the
\*             element is missing, else a Number
RawResult(kind, refElem, ref, name, location_name, lon, lat) ==
    [kind |-> kind, refElem |-> refElem, ref |-> ref, name |-> name,
     location_name |-> location_name, lon |-> lon, lat |-> lat]

\* a match with its sort key
KeyedStop(key, stop) == [key |-> key, stop |-> stop]

\* the JSON document of the cache file
CacheFile(timestamp, stops) == [timestamp |-> timestamp, stops |-> stops]

\* a run of search_location_by_coordinates
GeoCall(longitude, latitude, radius) ==
    [op |-> "search_location_by_coordinates", longitude |-> longitude,
     latitude |-> latitude, radius |-> radius]

\* the text of a TimetabledTime or EstimatedTime element:
\*   form    "bad" (datetime.fromisoformat rejects it), "naive" (no UTC
\*           offset), "Z" (ends in Z) or "offset" (ends in +hh:mm)
\*   local   the date and time it spells, in half seconds after
\*           2024-01-01T10:00:00
\*   offset  its UTC offset in half seconds (0 for "naive" and "Z")
TimeText(form, local, offset) ==
    [form |-> form, local |-> local, offset |-> offset]

\* a StopEventResult element of the response:
\*   event      whether it has a StopEvent child
\*   complete   whether ThisCall, CallAtStop, ServiceDeparture and Service
\*              are all found
\*   timetabled, estimated   the text of the time elements (None for a
\*              missing or empty element)
\*   line, destination, mode   the texts of the service
RawDeparture(event, complete, timetabled, estimated, line, destination, mode) ==
    [event |-> event, complete |-> complete, timetabled |-> timetabled,
     estimated |-> estimated, line |-> line, destination |-> destination,
     mode |-> mode]

\* a DepartureRecord dict
DepartureRecord(line, destination, mode, planned_time, estimated_time, actual_time, delay_minutes, delay_seconds, has_realtime, current_time) ==
    [line |-> line, destination |-> destination, mode |-> mode,
     planned_time |-> planned_time, estimated_time |-> estimated_time,
     actual_time |-> actual_time, delay_minutes |-> delay_minutes,
     delay_seconds |-> delay_seconds, has_realtime |-> has_realtime,
     current_time |-> current_time]

\* a run of _parse_departure_results on the StopEventResult elements raw
DepartureCall(raw) == [op |-> "_parse_departure_results", raw |-> raw]

\* the dict cache_build_progress; error None is the empty tuple
Progress(running, total, current, current_city, error) ==
    [running |-> running, total |-> total, current |-> current,
     current_city |-> current_city, error |-> error]

\* a thread of the application: the function it runs, where it stands in it
\* (pc), its argument (cities, None when the request gave no list), its loop
\* index i, and its locals results and new_stops; stopped records that
\* stop_cache_build ran while it was refreshing
Thread(target, pc, cities, i, results, new_stops, stopped) ==
    [target |-> target, pc |-> pc, cities |-> cities, i |-> i,
     results |-> results, new_stops |-> new_stops, stopped |-> stopped]

\* a request to a route of the application, and the response to it
AppCall(op, cities) == [op |-> op, cities |-> cities]

\* http is the status code, payload what the JSON body carries
Reply(http, payload) == [http |-> http, payload |-> payload]

List(v) == Result("list", v)

NoneResult == Result("None", <<>>)

Raised == Result("raise", <<>>)

----------------------------------------------------------------------------
(* Sequence helpers *)

Min(a, b) == IF a <= b THEN a ELSE b

\* seq[:n] for n >= 0
Take(seq, n) == SubSeq(seq, 1, Min(n, Len(seq)))

Range(seq) == {seq[i] : i \in 1..Len(seq)}

RECURSIVE MapSeq(_, _)
\* [F(x) for x in seq]
MapSeq(F(_), seq) ==
    IF seq = <<>> THEN <<>> ELSE <<F(Head(seq))>> \o MapSeq(F, Tail(seq))

RECURSIVE Upto(_, _)
\* <<a, a+1, ..., b>>
Upto(a, b) == IF a > b THEN <<>> ELSE <<a>> \o Upto(a + 1, b)

----------------------------------------------------------------------------
(* Strings *)

\* the letters used in names and queries are A B a b, as code points 65 66
\* 97 98

LowerChar(c) == IF c >= 65 /\ c <= 90 THEN c + 32 ELSE c

\* str.lower()
Lower(s) == MapSeq(LowerChar, s)

\* sub in s
Contains(sub, s) ==
    \E i \in 0..(Len(s) - Len(sub)) : SubSeq(s, i + 1, i + Len(sub)) = sub

\* s.startswith(p)
StartsWith(s, p) == Len(p) <= Len(s) /\ SubSeq(s, 1, Len(p)) = p

\* a < b for two str values: lexicographic by code point, a proper prefix first
StrLess(a, b) ==
    \E k \in 1..Len(b) :
        /\ \A m \in 1..(k - 1) : m <= Len(a) /\ a[m] = b[m]
        /\ \/ k = Len(a) + 1
           \/ (k <= Len(a) /\ a[k] < b[k])

----------------------------------------------------------------------------
(* Location parsing: TriasClient._parse_location_results                   *)
(***************************************************************************)

\* a coordinate element whose text float() accepts
Num(v) == Some(Number(v, TRUE))

\* a coordinate element whose text float() rejects
NotANumber(v) == Some(Number(v, FALSE))

\* float(elem.text) if elem is not None else None
FloatOf(c) == IF c = None THEN None ELSE Some(Val(c).v)

\* the per-result try block: which LocationResult elements reach results.append
ResultKept(r) ==
    /\ r.kind \in {"StopPoint", "StopPlace"}
    /\ r.refElem
    /\ r.ref # None
    /\ (r.lon # None => Val(r.lon).ok)
    /\ (r.lat # None => Val(r.lat).ok)

\* the flat result dict built for a kept element
FlatResult(r) ==
    FlatRecord(Val(r.ref), r.name, r.location_name, FloatOf(r.lon),
               FloatOf(r.lat))

RECURSIVE FlatResults(_)
FlatResults(raw) ==
    IF raw = <<>> THEN <<>>
    ELSE IF ResultKept(Head(raw))
         THEN <<FlatResult(Head(raw))>> \o FlatResults(Tail(raw))
         ELSE FlatResults(Tail(raw))

NewGroup(result) ==
    GroupRecord(<<result.stop_id>>, Val(result.stop_name), result.locality,
                result.longitude, result.latitude, 1)

\* an additional platform whose id is recorded but not counted
AddPlatformUncounted(g, result) ==
    [g EXCEPT !.stop_id = Append(@, result.stop_id)]

\* an additional platform of an existing group
AddPlatform(g, result) ==
    [g EXCEPT !.stop_id = Append(@, result.stop_id),
              !.platforms = @ + 1,
              !.longitude = IF g.longitude = None /\ result.longitude # None
                            THEN result.longitude ELSE @,
              !.latitude = IF g.longitude = None /\ result.longitude # None
                           THEN result.latitude ELSE @]

\* one iteration of the grouping loop; grouped is the dict in insertion order
GroupStep(grouped, result) ==
    \* if not stop_name: continue (None or the empty string)
    IF result.stop_name = None \/ Val(result.stop_name) = <<>> THEN grouped
    ELSE IF \E i \in 1..Len(grouped) : grouped[i].stop_name = Val(result.stop_name)
         THEN LET Update(g) == IF g.stop_name = Val(result.stop_name)
                               THEN AddPlatform(g, result) ELSE g
              IN  MapSeq(Update, grouped)
         ELSE Append(grouped, NewGroup(result))

RECURSIVE GroupByName(_, _)
GroupByName(grouped, results) ==
    IF results = <<>> THEN grouped
    ELSE GroupByName(GroupStep(grouped, Head(results)), Tail(results))

\* the StopRecord dict of a group
CombinedResult(data) ==
    StopRecord(data.stop_id[1], data.stop_id, data.stop_name, data.locality,
               data.longitude, data.latitude, data.platforms, None)

ParseLocationResults(raw) ==
    MapSeq(CombinedResult, GroupByName(<<>>, FlatResults(raw)))

----------------------------------------------------------------------------
(* Stop cache: _search_cache, _add_to_cache, _save_stop_cache,             *)
(* _load_stop_cache                                                        *)
(***************************************************************************)

\* STOP_CACHE_TTL_HOURS; the clock counts hours
STOP_CACHE_TTL_HOURS == 24

\* len(new_stops) >= 10
SaveBatch == 10

\* len(self.stop_cache) % 50 == 0
SaveEvery == 50

\* the loop body's test: query_lower in stop_name or query_lower in locality
\* (reached only when locality is a str)
StopMatches(stop, query_lower) ==
    \/ Contains(query_lower, Lower(stop.stop_name))
    \/ Contains(query_lower, Lower(Val(stop.locality)))

\* a sort key that ignores whether the name starts with the query
SortKeyNameOnly(stop, query_lower) == <<FALSE, stop.stop_name>>

\* the sort key of a match: (not name.lower().startswith(query_lower), name)
SortKey(stop, query_lower) ==
    <<~StartsWith(Lower(stop.stop_name), query_lower), stop.stop_name>>

\* tuple comparison of two sort keys: False before True, then the names
KeyLess(ka, kb) ==
    \/ (~ka[1] /\ kb[1])
    \/ (ka[1] = kb[1] /\ StrLess(ka[2], kb[2]))

RECURSIVE Keyed(_, _)
\* the key function is applied once to every element
Keyed(matches, query_lower) ==
    IF matches = <<>> THEN <<>>
    ELSE <<KeyedStop(SortKey(Head(matches), query_lower), Head(matches))>>
         \o Keyed(Tail(matches), query_lower)

RECURSIVE InsertStable(_, _)
\* x placed after every element whose key is not above its own
InsertStable(sorted, x) ==
    IF sorted = <<>> THEN <<x>>
    ELSE IF KeyLess(x.key, Head(sorted).key)
         THEN <<x>> \o sorted
         ELSE <<Head(sorted)>> \o InsertStable(Tail(sorted), x)

RECURSIVE SortKeyed(_, _)
\* acc is the sorted part
SortKeyed(acc, keyed) ==
    IF keyed = <<>> THEN acc
    ELSE SortKeyed(InsertStable(acc, Head(keyed)), Tail(keyed))

RECURSIVE Stops(_)
Stops(keyed) ==
    IF keyed = <<>> THEN <<>> ELSE <<Head(keyed).stop>> \o Stops(Tail(keyed))

\* list.sort(key=...): ascending and stable
SortMatches(matches, query_lower) ==
    Stops(SortKeyed(<<>>, Keyed(matches, query_lower)))

RECURSIVE CacheMatches(_, _)
CacheMatches(cache, query_lower) ==
    IF cache = <<>> THEN <<>>
    ELSE IF StopMatches(Head(cache), query_lower)
         THEN <<Head(cache)>> \o CacheMatches(Tail(cache), query_lower)
         ELSE CacheMatches(Tail(cache), query_lower)

\* _search_cache(query, limit), limit >= 0
SearchCache(cache, query, limit) ==
    IF cache = <<>> THEN NoneResult
    ELSE IF \E i \in 1..Len(cache) : cache[i].locality = None
         \* stop.get('locality', '') is None: None.lower() raises
         THEN Raised
         ELSE LET query_lower == Lower(query)
                  matches == SortMatches(CacheMatches(cache, query_lower),
                                         query_lower)
              IN  IF matches = <<>> THEN NoneResult
                  ELSE List(Take(matches, limit))

ExistingIds(cache) == {cache[i].stop_id : i \in 1..Len(cache)}

RECURSIVE NewStops(_, _)
\* [stop for stop in stops if stop['stop_id'] not in existing_ids]
NewStops(existing_ids, stops) ==
    IF stops = <<>> THEN <<>>
    ELSE IF Head(stops).stop_id \notin existing_ids
         THEN <<Head(stops)>> \o NewStops(existing_ids, Tail(stops))
         ELSE NewStops(existing_ids, Tail(stops))

\* the cache after _add_to_cache(stops)
CacheAfterAdd(cache, stops) == cache \o NewStops(ExistingIds(cache), stops)

\* a merge that saves whenever it is called
SavesOnEveryAdd(cache, stops) == TRUE

\* whether _add_to_cache(stops) calls _save_stop_cache
SavesOnAdd(cache, stops) ==
    LET new_stops == NewStops(ExistingIds(cache), stops)
    IN  /\ new_stops # <<>>
        /\ \/ Len(new_stops) >= SaveBatch
           \/ (Len(cache) + Len(new_stops)) % SaveEvery = 0

\* the file after _save_stop_cache at time t with the cache as given
FileAfterSave(f, cache, t) ==
    IF cache # <<>> THEN Some(CacheFile(t, cache)) ELSE f

\* the file after _add_to_cache(stops) at time t
FileAfterAdd(f, cache, stops, t) ==
    IF SavesOnAdd(cache, stops)
    THEN FileAfterSave(f, CacheAfterAdd(cache, stops), t)
    ELSE f

\* a freshness test that still accepts an entry of exactly the TTL's age
IsFreshAtTtl(f, t) == f # None /\ t - Val(f).timestamp <= STOP_CACHE_TTL_HOURS

\* the freshness test of _load_stop_cache
IsFresh(f, t) == f # None /\ t - Val(f).timestamp < STOP_CACHE_TTL_HOURS

\* stop_cache after _load_stop_cache at time t
LoadedCache(f, t) == IF IsFresh(f, t) THEN Val(f).stops ELSE <<>>

\* cache_timestamp after _load_stop_cache at time t
LoadedTimestamp(f, t) == IF IsFresh(f, t) THEN Val(f).timestamp ELSE t

----------------------------------------------------------------------------
(* The client over time: construction, name searches, the clock            *)
(***************************************************************************)

\* number of results in an upstream response drawn from the catalog
MaxResp == 2

\* number_of_results of a name search: 1..MaxLimit
MaxLimit == 2

\* the cache is not grown beyond this many records
MaxCache == 4

\* "a", "B", "ab"
Queries == <<(<<97>>), (<<66>>), (<<97, 98>>)>>

\* LocationResult elements the upstream service may return: two platforms of
\* "aa" (the second without locality and coordinates), the stop place "Ba"
\* and the stop "bb"
\* (their ids follow base)
Catalog(base) ==
    << RawResult("StopPoint", TRUE, Some(base + 1), Some(<<97, 97>>), Some(<<65>>),
                 Num(1), Num(1)),
       RawResult("StopPoint", TRUE, Some(base + 2), Some(<<97, 97>>), None, None, None),
       RawResult("StopPlace", TRUE, Some(base + 3), Some(<<66, 97>>), Some(<<98>>),
                 Num(2), Num(0)),
       RawResult("StopPoint", TRUE, Some(base + 4), Some(<<98, 98>>), Some(<<66>>),
                 None, None) >>

SeqsUpTo(S, n) == UNION {[1..k -> S] : k \in 0..n}

\* the responses of up to n results the upstream service may give to a
\* location request
Responses(n) == SeqsUpTo(Range(Catalog(0)), n)

\* what _fetch_location_by_name may give: Raised when _make_request fails,
\* else the parsed list
Fetches(n) ==
    {Raised} \cup {List(ParseLocationResults(raw)) : raw \in Responses(n)}

\* the application as the module leaves it on import: nothing refreshes
AppAtStart ==
    /\ cache_build_progress = Progress(FALSE, 0, 0, <<>>, <<>>)
    /\ threads = <<>>

Init ==
    /\ AppAtStart
    /\ now = 0
    /\ file = None
    /\ stop_cache = <<>>
    /\ cache_timestamp = 0
    /\ call = Call("init", <<>>, 0)
    /\ ret = Ret(NoneResult, FALSE, 0, FALSE)

\* if cached_results:
Truthy(result) == result.kind = "list" /\ result.v # <<>>

\* _add_to_cache(stops), as far as the cache and the file go
AddToCache(stops) ==
    /\ stop_cache' = CacheAfterAdd(stop_cache, stops)
    /\ file' = FileAfterAdd(file, stop_cache, stops, now)

\* search_location_by_name(query, limit) when _search_cache gave cached_results
\* (a raise propagates to the caller)
AnswerFromCache(query, limit, cached_results) ==
    /\ call' = Call("search_location_by_name", query, limit)
    /\ ret' = Ret(cached_results, FALSE, 0, FALSE)
    /\ UNCHANGED <<now, stop_cache, cache_timestamp, file, app>>

\* search_location_by_name(query, limit) falling back to
\* _fetch_location_by_name; fetch is what that call gives: Raised when
\* _make_request fails, else the parsed list, which is merged and returned
AnswerFromNetwork(query, limit, fetch, maxCache) ==
    /\ call' = Call("search_location_by_name", query, limit)
    /\ UNCHANGED <<now, cache_timestamp, app>>
    /\ IF fetch.kind = "raise"
       THEN /\ ret' = Ret(fetch, TRUE, 0, FALSE)
            /\ UNCHANGED <<stop_cache, file>>
       ELSE /\ Len(CacheAfterAdd(stop_cache, fetch.v)) <= maxCache
            /\ AddToCache(fetch.v)
            /\ ret' = Ret(fetch, TRUE,
                          Len(NewStops(ExistingIds(stop_cache), fetch.v)),
                          SavesOnAdd(stop_cache, fetch.v))

\* whether search_location_by_name ends at the cache lookup: the lookup
\* raised, or it gave a non-empty list
EndsAtCache(cached_results) ==
    cached_results.kind = "raise" \/ Truthy(cached_results)

\* search_location_by_name(query, limit): the cache first, then the network
SearchLocationByName ==
    \E query \in Range(Queries), limit \in 1..MaxLimit :
        LET cached_results == SearchCache(stop_cache, query, limit)
        IN  IF EndsAtCache(cached_results)
            THEN AnswerFromCache(query, limit, cached_results)
            ELSE \E fetch \in Fetches(MaxResp) :
                    AnswerFromNetwork(query, limit, fetch, MaxCache)

\* the process restarts: TriasClient.__init__ runs _load_stop_cache (twice)
Restart ==
    /\ stop_cache' = LoadedCache(file, now)
    /\ cache_timestamp' = LoadedTimestamp(file, now)
    /\ call' = LoadCall(now)
    /\ ret' = Ret(NoneResult, FALSE, 0, FALSE)
    /\ UNCHANGED <<now, file, app>>

Next ==
    \/ SearchLocationByName
    \/ Restart

Spec == Init /\ [][Next]_vars

----------------------------------------------------------------------------
(* The client over days: large responses are saved, the clock advances,    *)
(* the process restarts and loads the file                                 *)
(***************************************************************************)

\* number of stops in a large upstream response
BigSize == 10

\* the j-th name of width letters over the two letters lo < hi
NameOfWidth(lo, hi, j, width) ==
    LET Letter(k) == IF ((j - 1) \div (2 ^ (width - k))) % 2 = 0 THEN lo ELSE hi
    IN  MapSeq(Letter, Upto(1, width))

\* the j-th four-letter name over the two letters lo < hi
NameOver(lo, hi, j) == NameOfWidth(lo, hi, j, 4)

\* a response of size stops with ids base+1.., names over two letters and
\* the locality loc
TownResponse(base, size, lo, hi, loc) ==
    LET Stop(j) == RawResult("StopPoint", TRUE, Some(base + j),
                             Some(NameOver(lo, hi, j)), Some(loc), None, None)
    IN  MapSeq(Stop, Upto(1, size))

BigResponse(base, lo, hi, loc) == TownResponse(base, BigSize, lo, hi, loc)

\* what _fetch_location_by_name may give here: a failure, nothing, the stops
\* of a town whose names hold A and a only, or those of one whose names hold B
\* and b only
TownFetches(base) ==
    { Raised, List(<<>>),
      List(ParseLocationResults(BigResponse(base, 65, 97, <<97>>))),
      List(ParseLocationResults(BigResponse(base + BigSize, 66, 98, <<98>>))) }

\* the instants at which something happens, in hours: around the start and
\* around one TTL later
Instants ==
    <<0, 1, STOP_CACHE_TTL_HOURS - 1, STOP_CACHE_TTL_HOURS,
      STOP_CACHE_TTL_HOURS + 1, STOP_CACHE_TTL_HOURS + 2>>

\* time passes
Tick ==
    /\ \E t \in Range(Instants) : t > now /\ now' = t
    /\ UNCHANGED <<stop_cache, cache_timestamp, file, call, ret, app>>

\* search_location_by_name("a" or "b", 1)
SearchTown ==
    \E query \in {<<97>>, <<98>>} :
        LET cached_results == SearchCache(stop_cache, query, 1)
        IN  IF EndsAtCache(cached_results)
            THEN AnswerFromCache(query, 1, cached_results)
            ELSE \E fetch \in TownFetches(0) :
                    AnswerFromNetwork(query, 1, fetch, 2 * BigSize)

NextDays ==
    \/ Tick
    \/ Restart
    \/ SearchTown

SpecDays == Init /\ [][NextDays]_vars

\* C2: after load(), the cache holds exactly the stops of the persisted entry
\* if there is one and now - timestamp < 24h, and is empty otherwise (entry of
\* age >= 24h, or no file).
C2_LoadAppliesTtl ==
    call.op = "load" =>
        IF file # None /\ call.at - Val(file).timestamp < 24
        THEN stop_cache = Val(file).stops
        ELSE stop_cache = <<>>

\* a load of an entry saved one hour or more before, with all its stops
C2_Witness ==
    /\ call.op = "load"
    /\ file # None
    /\ call.at - Val(file).timestamp >= 1
    /\ stop_cache = Val(file).stops
    /\ Len(stop_cache) >= BigSize

----------------------------------------------------------------------------
(* Claims about name search and merge, checked under Spec                  *)
(***************************************************************************)

\* the last operation was a name search that fell back to the network from an
\* empty cache, got a non-empty result and merged all of it
FirstSearchMerged ==
    /\ call.op = "search_location_by_name"
    /\ ret.net /\ ret.kind = "list" /\ ret.v # <<>>
    /\ ret.added = Len(stop_cache)

\* this step is a search_location_by_name with the arguments of the last one
SameSearchAgain ==
    /\ call'.op = "search_location_by_name"
    /\ call'.query = call.query /\ call'.limit = call.limit
    /\ <<ret', stop_cache'>> # <<ret, stop_cache>>

\* C1: from an empty cache, after search_location_by_name(q, n) fell back to
\* the network, got a non-empty result and merged it, the same search made
\* next is answered from the cache and sends no request.
C1_SecondSearchFromCache ==
    [][(FirstSearchMerged /\ SameSearchAgain)
          => (ret'.kind = "list" /\ ~ret'.net)]_vars

\* every id of every cached record: primary ids and platform ids
FlatIds(cache) ==
    UNION {{cache[i].stop_id} \cup Range(cache[i].stop_ids) : i \in 1..Len(cache)}

\* C5: a merge appends a stop if and only if its id is not among the ids
\* (primary and platform ids) of the records cached before the merge.
C5_MergeChecksAllIds ==
    (call.op = "search_location_by_name" /\ ret.net /\ ret.kind = "list") =>
        LET before == Take(stop_cache, Len(stop_cache) - ret.added)
            appended == SubSeq(stop_cache, Len(before) + 1, Len(stop_cache))
        IN  \A i \in 1..Len(ret.v) :
                (ret.v[i] \in Range(appended))
                    <=> (ret.v[i].stop_id \notin FlatIds(before))

----------------------------------------------------------------------------
(* _search_cache on its own: every cache of up to MaxShelfCache distinct    *)
(* records of a shelf, every query, every limit                             *)
(***************************************************************************)

\* records in a searched cache
MaxShelfCache == 4

\* limit of a cache search: 0..MaxSearchLimit
MaxSearchLimit == 3

\* the stops "Ab" in "a", "aa" in "b", "ab" without locality, "Ba" in "B"
\* and "bA" in "A", as location parsing gives them
Shelf ==
    ParseLocationResults(
        << RawResult("StopPoint", TRUE, Some(1), Some(<<65, 98>>), Some(<<97>>),
                     None, None),
           RawResult("StopPoint", TRUE, Some(2), Some(<<97, 97>>), Some(<<98>>),
                     None, None),
           RawResult("StopPoint", TRUE, Some(3), Some(<<97, 98>>), None,
                     None, None),
           RawResult("StopPlace", TRUE, Some(4), Some(<<66, 97>>), Some(<<66>>),
                     None, None),
           RawResult("StopPoint", TRUE, Some(5), Some(<<98, 65>>), Some(<<65>>),
                     None, None) >>)

\* the sequences of up to n distinct elements of S
DistinctSeqs(S, n) ==
    {q \in SeqsUpTo(S, n) : \A i, j \in 1..Len(q) : q[i] = q[j] => i = j}

\* "a", "b", "B", "ab"
SearchQueries == <<(<<97>>), (<<98>>), (<<66>>), (<<97, 98>>)>>

InitSearch ==
    /\ AppAtStart
    /\ now = 0
    /\ file = None
    /\ stop_cache \in DistinctSeqs(Range(Shelf), MaxShelfCache)
    /\ cache_timestamp = 0
    /\ call = Call("init", <<>>, 0)
    /\ ret = Ret(NoneResult, FALSE, 0, FALSE)

\* _search_cache(query, limit)
RunSearchCache ==
    \E query \in Range(SearchQueries), limit \in 0..MaxSearchLimit :
        /\ call' = Call("_search_cache", query, limit)
        /\ ret' = Ret(SearchCache(stop_cache, query, limit), FALSE, 0, FALSE)
        /\ UNCHANGED <<now, stop_cache, cache_timestamp, file, app>>

NextSearch == RunSearchCache

SpecSearch == InitSearch /\ [][NextSearch]_vars

\* the cached records whose name or locality contains the query, whatever the
\* case of the letters; a record without locality matches by its name
Wanted(cache, query) ==
    {cache[i] : i \in {k \in 1..Len(cache) :
        \/ Contains(Lower(query), Lower(cache[k].stop_name))
        \/ /\ cache[k].locality # None
           /\ Contains(Lower(query), Lower(Val(cache[k].locality)))}}

\* C3: _search_cache(query, limit) returns None when no cached record matches,
\* and otherwise min(limit, number of matching records) records, each of them
\* a matching record; also when a cached record has no locality.
C3_SearchReturnsTheMatches ==
    call.op = "_search_cache" =>
        LET want == Wanted(stop_cache, call.query)
        IN  IF want = {}
            THEN ret.kind = "None"
            ELSE /\ ret.kind = "list"
                 /\ Range(ret.v) \subseteq want
                 /\ Len(ret.v) = Min(call.limit, Cardinality(want))

\* the name of a returned record starts with the query, whatever the case
IsPrefixMatch(stop) == StartsWith(Lower(stop.stop_name), Lower(call.query))

\* m ranks strictly before x: a prefix match before any other match, and
\* within a group the name that is less by code point
Outranks(m, x) ==
    \/ (IsPrefixMatch(m) /\ ~IsPrefixMatch(x))
    \/ (IsPrefixMatch(m) = IsPrefixMatch(x) /\ StrLess(m.stop_name, x.stop_name))

\* prefix matches come first, and no match that was cut off ranks before a
\* returned one
RankedThenCut ==
    /\ \A i, j \in 1..Len(ret.v) :
           (i < j /\ IsPrefixMatch(ret.v[j])) => IsPrefixMatch(ret.v[i])
    /\ \A m \in Wanted(stop_cache, call.query) \ Range(ret.v) :
           \A i \in 1..Len(ret.v) : ~Outranks(m, ret.v[i])

\* C4 (as amended): in the list _search_cache returns, prefix matches come
\* before the other matches, the names within each group ascend in the order
\* of Python's str comparison (by code point, so "B" is before "a"), and the
\* limit cuts the ranked list.
C4_RankedByCodePoint ==
    (call.op = "_search_cache" /\ ret.kind = "list") =>
        /\ RankedThenCut
        /\ \A i, j \in 1..Len(ret.v) :
               (i < j /\ IsPrefixMatch(ret.v[i]) = IsPrefixMatch(ret.v[j]))
                   => ~StrLess(ret.v[j].stop_name, ret.v[i].stop_name)

\* C4 as stated: the names within each group ascend alphabetically, that is
\* whatever the case of the letters
C4_RankedAlphabetically ==
    (call.op = "_search_cache" /\ ret.kind = "list") =>
        /\ RankedThenCut
        /\ \A i, j \in 1..Len(ret.v) :
               (i < j /\ IsPrefixMatch(ret.v[i]) = IsPrefixMatch(ret.v[j]))
                   => ~StrLess(Lower(ret.v[j].stop_name),
                               Lower(ret.v[i].stop_name))

\* a search whose limit cut off a match, and which returned a prefix match, a
\* match that is none, and two names of one group
C4_Witness ==
    /\ call.op = "_search_cache" /\ ret.kind = "list"
    /\ Len(ret.v) = call.limit
    /\ Wanted(stop_cache, call.query) \ Range(ret.v) # {}
    /\ \E i, j \in 1..Len(ret.v) :
           IsPrefixMatch(ret.v[i]) /\ ~IsPrefixMatch(ret.v[j])
    /\ \E i, j \in 1..Len(ret.v) :
           /\ i < j /\ IsPrefixMatch(ret.v[i]) = IsPrefixMatch(ret.v[j])
           /\ StrLess(ret.v[i].stop_name, ret.v[j].stop_name)

----------------------------------------------------------------------------
(* _add_to_cache on its own: batches of new and of known stops are merged   *)
(* until the cache holds MaxMerged records                                  *)
(***************************************************************************)

\* the cache is not grown beyond this many records
MaxMerged == 55

\* the sizes of the batches
BatchSizes == <<1, 5, 9, 10>>

\* a response of size stops with ids base+1.., each named after its id
NumberedResponse(base, size) ==
    LET Stop(j) == RawResult("StopPoint", TRUE, Some(base + j),
                             Some(NameOfWidth(65, 97, base + j, 6)),
                             Some(<<97>>), None, None)
    IN  MapSeq(Stop, Upto(1, size))

\* _add_to_cache(stops) where stops are size parsed stops with ids base+1..:
\* new ones when base is the number of cached records, known ones (as far as
\* they are cached) when base is 0
Merge ==
    \E k \in 1..Len(BatchSizes), fresh \in BOOLEAN :
        LET base == IF fresh THEN Len(stop_cache) ELSE 0
            stops == ParseLocationResults(
                         NumberedResponse(base, BatchSizes[k]))
        IN  /\ Len(CacheAfterAdd(stop_cache, stops)) <= MaxMerged
            /\ AddToCache(stops)
            /\ call' = Call("_add_to_cache", <<>>, Len(stops))
            /\ ret' = Ret(NoneResult, FALSE,
                          Len(NewStops(ExistingIds(stop_cache), stops)),
                          SavesOnAdd(stop_cache, stops))
            /\ UNCHANGED <<now, cache_timestamp, app>>

NextMerge == Merge

SpecMerge == Init /\ [][NextMerge]_vars

\* the count went from below a multiple of 50 to that multiple or above it
CrossedMultiple(before, after) ==
    \E m \in 1..after : before < m * 50 /\ after >= m * 50

\* C6: a merge saves the cache when it added 10 stops or more, or when the
\* number of cached stops crossed a multiple of 50; a merge that added nothing
\* does not save.
C6_MergeSavesOnBatchOrCrossing ==
    call.op = "_add_to_cache" =>
        /\ (ret.added >= 10
               \/ CrossedMultiple(Len(stop_cache) - ret.added, Len(stop_cache)))
           => (ret.saved /\ file = Some(CacheFile(now, stop_cache)))
        /\ ret.added = 0 => ~ret.saved

----------------------------------------------------------------------------
(* _parse_location_results on its own: every response of up to MaxParsed    *)
(* LocationResult elements                                                  *)
(***************************************************************************)

\* LocationResult elements in a parsed response
MaxParsed == 3

\* the elements a response is made of: two platforms and the stop place of
\* "aa", a stop "bb" whose latitude is no number, and elements without
\* Location, without stop, without ref element, without ref text, without
\* name and with an empty name
ParsePool ==
    << RawResult("StopPoint", TRUE, Some(1), Some(<<97, 97>>), Some(<<65>>),
                 None, None),
       RawResult("StopPoint", TRUE, Some(2), Some(<<97, 97>>), None,
                 Num(1), Num(2)),
       RawResult("StopPlace", TRUE, Some(3), Some(<<97, 97>>), Some(<<66>>),
                 Num(3), Num(0)),
       RawResult("StopPoint", TRUE, Some(4), Some(<<98, 98>>), Some(<<66>>),
                 Num(1), NotANumber(0)),
       RawResult("NoLocation", FALSE, None, None, None, None, None),
       RawResult("Address", FALSE, None, None, Some(<<65>>), Num(1), Num(1)),
       RawResult("StopPoint", FALSE, None, Some(<<98, 98>>), None, None, None),
       RawResult("StopPlace", TRUE, None, Some(<<98, 98>>), None, None, None),
       RawResult("StopPoint", TRUE, Some(5), None, Some(<<65>>), None, None),
       RawResult("StopPoint", TRUE, Some(6), Some(<<>>), None, None, None),
       RawResult("StopPoint", TRUE, Some(7), Some(<<98, 98>>), None, None, None) >>

InitParse ==
    /\ AppAtStart
    /\ now = 0
    /\ file = None
    /\ stop_cache = <<>>
    /\ cache_timestamp = 0
    /\ call \in {Received(raw) : raw \in SeqsUpTo(Range(ParsePool), MaxParsed)}
    /\ ret = Ret(NoneResult, FALSE, 0, FALSE)

\* _parse_location_results(root), root holding the received elements
ParseLocations ==
    /\ call.op = "received"
    /\ call' = ParseCall(call.raw)
    /\ ret' = Ret(List(ParseLocationResults(call.raw)), FALSE, 0, FALSE)
    /\ UNCHANGED <<now, stop_cache, cache_timestamp, file, app>>

NextParse == ParseLocations

SpecParse == InitParse /\ [][NextParse]_vars

\* C10: every StopRecord that location parsing gives has at least one id in
\* stop_ids, has stop_ids[0] as its stop_id, and has as many platforms as ids,
\* one at least.
C10_StopRecordIds ==
    call.op = "_parse_location_results" =>
        \A i \in 1..Len(ret.v) :
            /\ ret.v[i].stop_ids # <<>>
            /\ ret.v[i].stop_id = ret.v[i].stop_ids[1]
            /\ ret.v[i].platforms = Len(ret.v[i].stop_ids)
            /\ ret.v[i].platforms >= 1

\* a response of three elements gave one stop of two platforms
C10_Witness ==
    /\ call.op = "_parse_location_results"
    /\ Len(call.raw) = 3
    /\ Len(ret.v) = 1
    /\ ret.v[1].platforms = 2
    /\ ret.v[1].stop_ids = <<2, 1>>

----------------------------------------------------------------------------
(* Departure parsing: TriasClient._parse_departure_results                 *)
(***************************************************************************)

\* int(x) for the fraction n / d, d > 0: towards zero
Trunc(n, d) == IF n >= 0 THEN n \div d ELSE -((-n) \div d)

\* round(n / d) for d > 0: to the nearest integer, a tie to the even one
RoundHalfEven(n, d) ==
    LET q == n \div d
        r == n - q * d
    IN  IF 2 * r < d THEN q
        ELSE IF 2 * r > d THEN q + 1
        ELSE IF q % 2 = 0 THEN q ELSE q + 1

\* whether datetime.fromisoformat(text.replace('Z', '+00:00')) succeeds
Parses(t) == t.form # "bad"

\* whether the datetime carries a tzinfo
Aware(t) == t.form \in {"Z", "offset"}

\* whether estimated - planned succeeds: Python refuses to subtract an
\* offset-naive and an offset-aware datetime
Subtracts(planned, estimated) == Aware(planned) = Aware(estimated)

\* (estimated - planned) in half seconds
TimeDelta(planned, estimated) ==
    (estimated.local - estimated.offset) - (planned.local - planned.offset)

\* int((estimated - planned).total_seconds())
DelaySeconds(planned, estimated) == Trunc(TimeDelta(planned, estimated), 2)

\* a delay in minutes cut off instead of rounded
DelayMinutesCut(delay_seconds) == delay_seconds \div 60

\* round(delay_seconds / 60)
DelayMinutes(delay_seconds) == RoundHalfEven(delay_seconds, 60)

\* whether the try block that computes the delay runs to its end
DelayComputed(planned_time_str, estimated_time_str) ==
    /\ planned_time_str # None /\ estimated_time_str # None
    /\ Parses(Val(planned_time_str)) /\ Parses(Val(estimated_time_str))
    /\ Subtracts(Val(planned_time_str), Val(estimated_time_str))

\* an actual time that ignores the estimate
ActualTimePlanned(planned_time_str, estimated_time_str) == planned_time_str

\* estimated_time_str if estimated_time_str else planned_time_str
ActualTime(planned_time_str, estimated_time_str) ==
    IF estimated_time_str # None THEN estimated_time_str ELSE planned_time_str

\* a test that lets elements lacking a child through
DepartureKeptIncomplete(r) == r.event

\* whether a StopEventResult element reaches results.append: those without
\* StopEvent are skipped, those lacking a child raise and are skipped
DepartureKept(r) == r.event /\ r.complete

\* the result dict of a kept element, built at the instant t
DepartureResult(r, t) ==
    LET computed == DelayComputed(r.timetabled, r.estimated)
        delay_seconds == IF computed
                         THEN Some(DelaySeconds(Val(r.timetabled),
                                                Val(r.estimated)))
                         ELSE None
        delay_minutes == IF computed
                         THEN Some(DelayMinutes(Val(delay_seconds)))
                         ELSE None
    IN  DepartureRecord(r.line, r.destination, r.mode, r.timetabled,
                        r.estimated, ActualTime(r.timetabled, r.estimated),
                        delay_minutes, delay_seconds, r.estimated # None, t)

RECURSIVE ParseDepartureResults(_, _)
\* _parse_departure_results(root) at the instant t
ParseDepartureResults(raw, t) ==
    IF raw = <<>> THEN <<>>
    ELSE IF DepartureKept(Head(raw))
         THEN <<DepartureResult(Head(raw), t)>>
              \o ParseDepartureResults(Tail(raw), t)
         ELSE ParseDepartureResults(Tail(raw), t)

\* StopEventResult elements in a parsed response
MaxDepartures == 2

\* a departure of line "A" to "B" with the given time texts
Departure(timetabled, estimated) ==
    RawDeparture(TRUE, TRUE, timetabled, estimated, Some(<<65>>), Some(<<66>>),
                 None)

\* 10:00:00Z plus local half seconds
Zulu(local) == Some(TimeText("Z", local, 0))

\* the same without offset
Naive(local) == Some(TimeText("naive", local, 0))

\* 11:00:00+01:00 plus local half seconds
PlusOne(local) == Some(TimeText("offset", 7200 + local, 7200))

\* a text that is no timestamp
BadTime == Some(TimeText("bad", 0, 0))

\* the elements a response is made of: delays of 180 s, -30 s, 90 s, 0.5 s,
\* -0.5 s, 59.5 s (estimate with offset) and 150 s (both without offset); a
\* planned time without and an estimate with offset; an estimate that is no
\* timestamp; no estimate; no planned time; a planned time that is no
\* timestamp; an element without StopEvent and one without ThisCall
DeparturePool ==
    << Departure(Zulu(0), Zulu(360)),
       Departure(Zulu(60), Zulu(0)),
       Departure(Zulu(0), Zulu(180)),
       Departure(Zulu(0), Zulu(1)),
       Departure(Zulu(1), Zulu(0)),
       Departure(Zulu(0), PlusOne(119)),
       Departure(Naive(0), Naive(300)),
       Departure(Naive(0), Zulu(360)),
       Departure(Zulu(0), BadTime),
       Departure(Zulu(0), None),
       Departure(None, Zulu(0)),
       Departure(BadTime, None),
       RawDeparture(FALSE, FALSE, None, None, None, None, None),
       RawDeparture(TRUE, FALSE, Zulu(0), Zulu(360), None, None, None) >>

InitDep ==
    /\ AppAtStart
    /\ now = 0
    /\ file = None
    /\ stop_cache = <<>>
    /\ cache_timestamp = 0
    /\ call \in {Received(raw) :
                    raw \in SeqsUpTo(Range(DeparturePool), MaxDepartures)}
    /\ ret = Ret(NoneResult, FALSE, 0, FALSE)

\* _parse_departure_results(root), root holding the received elements
ParseDepartures ==
    /\ call.op = "received"
    /\ call' = DepartureCall(call.raw)
    /\ ret' = Ret(List(ParseDepartureResults(call.raw, now)), FALSE, 0, FALSE)
    /\ UNCHANGED <<now, stop_cache, cache_timestamp, file, app>>

NextDep == ParseDepartures

SpecDep == InitDep /\ [][NextDep]_vars

\* the elements of a response that have a StopEvent with all its children
Readable(raw) == SelectSeq(raw, LAMBDA r : r.event /\ r.complete)

\* both time texts are there and are ISO-8601 timestamps
BothParse(r) ==
    /\ r.timetabled # None /\ Val(r.timetabled).form # "bad"
    /\ r.estimated # None /\ Val(r.estimated).form # "bad"

\* both timestamps carry a UTC offset (or Z), or neither does
SameKind(r) ==
    (Val(r.timetabled).form = "naive") = (Val(r.estimated).form = "naive")

\* estimated minus planned, in half seconds
HalfSecondsLate(r) ==
    (Val(r.estimated).local - Val(r.estimated).offset)
        - (Val(r.timetabled).local - Val(r.timetabled).offset)

\* d.delay_seconds is estimated minus planned of r in whole seconds (the
\* fraction dropped), d.delay_minutes the nearest integer to a sixtieth of it
DelayIsRight(r, d) ==
    /\ d.delay_seconds # None /\ d.delay_minutes # None
    /\ LET ds == Val(d.delay_seconds)
           dm == Val(d.delay_minutes)
           late == HalfSecondsLate(r)
       IN  /\ 2 * ds <= late + 1 /\ 2 * ds >= late - 1
           /\ (late >= 0 => 2 * ds <= late) /\ (late <= 0 => 2 * ds >= late)
           /\ 60 * dm - ds <= 30 /\ ds - 60 * dm <= 30

\* C8 (as amended): a departure whose planned and estimated times both parse
\* and either both or neither carry a UTC offset has delay_seconds = estimated
\* minus planned in whole seconds and delay_minutes = delay_seconds / 60
\* rounded to the nearest integer, so |60 * delay_minutes - delay_seconds| <= 30.
C8_DelayOfLikeTimestamps ==
    call.op = "_parse_departure_results" =>
        /\ Len(ret.v) = Len(Readable(call.raw))
        /\ \A i \in 1..Len(ret.v) :
               (BothParse(Readable(call.raw)[i]) /\ SameKind(Readable(call.raw)[i]))
                   => DelayIsRight(Readable(call.raw)[i], ret.v[i])

\* C8 as stated: every departure whose planned and estimated times both parse
\* has these delay fields
C8_DelayWheneverBothParse ==
    call.op = "_parse_departure_results" =>
        /\ Len(ret.v) = Len(Readable(call.raw))
        /\ \A i \in 1..Len(ret.v) :
               BothParse(Readable(call.raw)[i])
                   => DelayIsRight(Readable(call.raw)[i], ret.v[i])

\* planned 10:00:00Z and estimated 10:03:00Z gave 180 and 3, and a departure
\* half a minute early gave -30 and 0
C8_Witness ==
    /\ call.op = "_parse_departure_results"
    /\ Len(ret.v) = 2
    /\ call.raw[1] = Departure(Zulu(0), Zulu(360))
    /\ ret.v[1].delay_seconds = Some(180) /\ ret.v[1].delay_minutes = Some(3)
    /\ ret.v[2].delay_seconds = Some(-30) /\ ret.v[2].delay_minutes = Some(0)

\* C9: every DepartureRecord has has_realtime true iff it has an estimated
\* time, has the estimated time as actual time if there is one and the planned
\* time otherwise, has delay fields only if both times parsed, and there is a
\* record for every readable element, also one whose times do not parse.
C9_DepartureRecordShape ==
    call.op = "_parse_departure_results" =>
        /\ Len(ret.v) = Len(Readable(call.raw))
        /\ \A i \in 1..Len(ret.v) :
               LET r == Readable(call.raw)[i]
                   d == ret.v[i]
               IN  /\ d.planned_time = r.timetabled
                   /\ d.estimated_time = r.estimated
                   /\ d.has_realtime <=> d.estimated_time # None
                   /\ d.actual_time = IF d.estimated_time # None
                                      THEN d.estimated_time
                                      ELSE d.planned_time
                   /\ (d.delay_seconds # None \/ d.delay_minutes # None)
                          => BothParse(r)

\* a departure whose estimate is no timestamp is kept without delay fields,
\* next to one without estimate
C9_Witness ==
    /\ call.op = "_parse_departure_results"
    /\ Len(call.raw) = 2 /\ Len(ret.v) = 2
    /\ call.raw[1].estimated = BadTime
    /\ ret.v[1].has_realtime /\ ret.v[1].actual_time = BadTime
    /\ ret.v[1].delay_seconds = None /\ ret.v[1].delay_minutes = None
    /\ ~ret.v[2].has_realtime /\ ret.v[2].estimated_time = None
    /\ ret.v[2].actual_time = ret.v[2].planned_time
    /\ ret.v[2].planned_time # None

----------------------------------------------------------------------------
(* search_location_by_coordinates                                          *)
(*                                                                         *)
(* The centre and the stops lie on the meridian 1 E (a stop may also claim *)
(* the longitude 0).  A latitude is counted in decimetres of meridian arc  *)
(* north of the equator; between two points of one meridian the haversine  *)
(* formula gives the arc between them, the difference of the latitudes.    *)
(* The radius and the distance annotation are in metres.                   *)
(***************************************************************************)

Abs(x) == IF x >= 0 THEN x ELSE -x

\* result.get('latitude') and result.get('longitude'): None and 0.0 are falsy
HasCoordinates(result) ==
    /\ result.latitude # None /\ Val(result.latitude) # 0
    /\ result.longitude # None /\ Val(result.longitude) # 0

\* dist, in decimetres
Haversine(latitude, result) == Abs(Val(result.latitude) - latitude)

\* a radius test on the rounded distance
WithinRounded(dist, radius) == RoundHalfEven(dist, 10) <= radius

\* dist <= radius
WithinRadius(dist, radius) == dist <= 10 * radius

\* result['distance'] = round(dist)
Annotated(latitude, result) ==
    [result EXCEPT !.distance = Some(RoundHalfEven(Haversine(latitude, result), 10))]

RECURSIVE Filtered(_, _, _)
\* the loop over all_results
Filtered(all_results, latitude, radius) ==
    IF all_results = <<>> THEN <<>>
    ELSE IF /\ HasCoordinates(Head(all_results))
            /\ WithinRadius(Haversine(latitude, Head(all_results)), radius)
         THEN <<Annotated(latitude, Head(all_results))>>
              \o Filtered(Tail(all_results), latitude, radius)
         ELSE Filtered(Tail(all_results), latitude, radius)

RECURSIVE InsertByDistance(_, _)
\* x placed after every element whose distance is not above its own
InsertByDistance(sorted, x) ==
    IF sorted = <<>> THEN <<x>>
    ELSE IF Val(x.distance) < Val(Head(sorted).distance)
         THEN <<x>> \o sorted
         ELSE <<Head(sorted)>> \o InsertByDistance(Tail(sorted), x)

RECURSIVE SortByDistance(_, _)
\* filtered.sort(key=distance): ascending and stable; acc is the sorted part
SortByDistance(acc, filtered) ==
    IF filtered = <<>> THEN acc
    ELSE SortByDistance(InsertByDistance(acc, Head(filtered)), Tail(filtered))

\* what search_location_by_coordinates returns for the parsed all_results
NearbyStops(all_results, latitude, radius) ==
    SortByDistance(<<>>, Filtered(all_results, latitude, radius))

\* number of results in an upstream response to a coordinate search
MaxGeoResp == 2

\* the stops around the centre: "aa" 1.4 m and "ab" 1.2 m north of the
\* equator, "ba" on the equator, "bb" 2.5 m north (a second platform of it
\* has no coordinates), "Ab" 1.2 m north with the longitude 0, "Ba" 0.5 m
\* south
GeoCatalog ==
    << RawResult("StopPoint", TRUE, Some(1), Some(<<97, 97>>), Some(<<65>>),
                 Num(1), Num(14)),
       RawResult("StopPoint", TRUE, Some(2), Some(<<97, 98>>), Some(<<65>>),
                 Num(1), Num(12)),
       RawResult("StopPoint", TRUE, Some(3), Some(<<98, 97>>), Some(<<65>>),
                 Num(1), Num(0)),
       RawResult("StopPoint", TRUE, Some(4), Some(<<98, 98>>), Some(<<65>>),
                 Num(1), Num(25)),
       RawResult("StopPoint", TRUE, Some(5), Some(<<98, 98>>), Some(<<65>>),
                 None, None),
       RawResult("StopPoint", TRUE, Some(6), Some(<<65, 98>>), Some(<<65>>),
                 Num(0), Num(12)),
       RawResult("StopPoint", TRUE, Some(7), Some(<<66, 97>>), Some(<<65>>),
                 Num(1), Num(-5)) >>

\* latitudes of the centre: the equator and 0.5 m north of it
CenterLatitudes == <<0, 5>>

\* radius of the search, in metres
Radii == <<1, 2, 3>>

\* the client with an empty cache, and the response the upstream service
\* will give to the coordinate search
InitGeo ==
    /\ AppAtStart
    /\ now = 0
    /\ file = None
    /\ stop_cache = <<>>
    /\ cache_timestamp = 0
    /\ call \in {Received(raw) :
                    raw \in SeqsUpTo(Range(GeoCatalog), MaxGeoResp)}
    /\ ret = Ret(NoneResult, FALSE, 0, FALSE)

\* search_location_by_coordinates(1, latitude, radius) whose request fails
GeoSearchFails(latitude, radius) ==
    /\ call' = GeoCall(1, latitude, radius)
    /\ ret' = Ret(Raised, TRUE, 0, FALSE)
    /\ UNCHANGED <<now, stop_cache, cache_timestamp, file, app>>

\* search_location_by_coordinates(1, latitude, radius) whose response parses
\* to all_results
GeoSearchAnswers(latitude, radius, all_results) ==
    LET filtered == NearbyStops(all_results, latitude, radius)
    IN  /\ call' = GeoCall(1, latitude, radius)
        /\ UNCHANGED <<now, cache_timestamp, app>>
        /\ IF filtered # <<>>
           THEN /\ AddToCache(filtered)
                /\ ret' = Ret(List(filtered), TRUE,
                              Len(NewStops(ExistingIds(stop_cache), filtered)),
                              SavesOnAdd(stop_cache, filtered))
           ELSE /\ ret' = Ret(List(filtered), TRUE, 0, FALSE)
                /\ UNCHANGED <<stop_cache, file>>

SearchLocationByCoordinates ==
    /\ call.op = "received"
    /\ \E i \in 1..Len(CenterLatitudes), k \in 1..Len(Radii) :
           \/ GeoSearchFails(CenterLatitudes[i], Radii[k])
           \/ GeoSearchAnswers(CenterLatitudes[i], Radii[k],
                               ParseLocationResults(call.raw))

NextGeo == SearchLocationByCoordinates

SpecGeo == InitGeo /\ [][NextGeo]_vars

\* the distance in decimetres between the centre of the search and a stop
DecimetresAway(stop) == Abs(Val(stop.latitude) - call.latitude)

\* every returned stop has coordinates and lies within the radius
OnlyStopsInRadius ==
    \A i \in 1..Len(ret.v) :
        /\ ret.v[i].latitude # None /\ ret.v[i].longitude # None
        /\ DecimetresAway(ret.v[i]) <= 10 * call.radius
        /\ ret.v[i].distance # None

\* C7 (as amended): search_location_by_coordinates returns only stops that
\* have coordinates and whose distance from the centre is <= r, each
\* annotated with that distance rounded to the nearest metre, in
\* non-decreasing order of the rounded distance.
C7_OrderedByRoundedDistance ==
    (call.op = "search_location_by_coordinates" /\ ret.kind = "list") =>
        /\ OnlyStopsInRadius
        /\ \A i \in 1..Len(ret.v) :
               Abs(10 * Val(ret.v[i].distance) - DecimetresAway(ret.v[i])) <= 5
        /\ \A i, j \in 1..Len(ret.v) :
               i < j => Val(ret.v[i].distance) <= Val(ret.v[j].distance)

\* C7 as stated: each stop is annotated with its distance, and the stops are
\* in non-decreasing order of distance
C7_OrderedByDistance ==
    (call.op = "search_location_by_coordinates" /\ ret.kind = "list") =>
        /\ OnlyStopsInRadius
        /\ \A i \in 1..Len(ret.v) :
               10 * Val(ret.v[i].distance) = DecimetresAway(ret.v[i])
        /\ \A i, j \in 1..Len(ret.v) :
               i < j => DecimetresAway(ret.v[i]) <= DecimetresAway(ret.v[j])

\* a search returned two stops, the farther one second, at distances that are
\* no whole metres, and merged them
C7_Witness ==
    /\ call.op = "search_location_by_coordinates" /\ ret.kind = "list"
    /\ Len(ret.v) = 2 /\ stop_cache = ret.v
    /\ Val(ret.v[1].distance) < Val(ret.v[2].distance)
    /\ DecimetresAway(ret.v[1]) % 10 # 0
    /\ DecimetresAway(ret.v[2]) % 10 # 0

----------------------------------------------------------------------------
(* Trip parsing: TriasClient._parse_trip_results                           *)
(*                                                                         *)
(* The text of an element is None when the element is missing and the      *)
(* empty string when it is empty, as Element.findtext gives it.            *)
(***************************************************************************)

\* a LegStart or LegEnd element of a ContinuousLeg: the texts of
\* StopPointName/Text, LocationName/Text, EstimatedTime and Time
LegPoint(name, location_name, estimated, time) ==
    [name |-> name, location_name |-> location_name, estimated |-> estimated,
     time |-> time]

\* a LegBoard or LegAlight element of a TimedLeg: the texts of
\* StopPointName/Text and of the TimetabledTime and EstimatedTime of its
\* ServiceDeparture or ServiceArrival
CallPoint(name, timetabled, estimated) ==
    [name |-> name, timetabled |-> timetabled, estimated |-> estimated]

\* a Service element: the texts of PublishedLineName/Text,
\* DestinationText/Text and Mode/PtMode
ServiceElem(line, destination, mode) ==
    [line |-> line, destination |-> destination, mode |-> mode]

\* a ContinuousLeg element: LegStart and LegEnd (None when missing) and the
\* text of Duration
ContinuousElem(legstart, legend, duration) ==
    [legstart |-> legstart, legend |-> legend, duration |-> duration]

\* a TimedLeg element: LegBoard, LegAlight and Service (None when missing)
\* and the text of Duration
TimedElem(board, alight, service, duration) ==
    [duration |-> duration, board |-> board, alight |-> alight,
     service |-> service]

\* a TripLeg element: its ContinuousLeg and TimedLeg children (None when
\* missing)
RawLeg(continuous, timed) == [continuous |-> continuous, timed |-> timed]

\* a Trip element: the texts of StartTime, EndTime and Duration, and the
\* TripLeg children
TripElem(start_time, end_time, duration, legs) ==
    [duration |-> duration, start_time |-> start_time, end_time |-> end_time,
     legs |-> legs]

\* a TripResult element: its Trip child (None when missing)
RawTrip(trip) == [trip |-> trip]

\* the dict _parse_continuous_leg returns
ContinuousLeg(type, mode, from, to, departure_time, arrival_time, duration) ==
    [mode |-> mode, duration |-> duration, type |-> type, from |-> from,
     to |-> to, departure_time |-> departure_time,
     arrival_time |-> arrival_time]

\* the dict _parse_timed_leg returns
TimedLeg(type, mode, line, destination, from, to, departure_time, departure_time_planned, arrival_time, arrival_time_planned, duration) ==
    [line |-> line, destination |-> destination, mode |-> mode,
     duration |-> duration, type |-> type, from |-> from, to |-> to,
     departure_time |-> departure_time, arrival_time |-> arrival_time,
     departure_time_planned |-> departure_time_planned,
     arrival_time_planned |-> arrival_time_planned]

\* the dict built for one Trip
TripData(start_time, end_time, duration, legs) ==
    [duration |-> duration, start_time |-> start_time, end_time |-> end_time,
     legs |-> legs]

\* a run of _parse_trip_results on the TripResult elements raw
TripCall(raw) == [op |-> "_parse_trip_results", raw |-> raw]

\* not text: the text is None or ''
Blank(text) == text = None \/ Val(text) = <<>>

\* text or default
OrElse(text, default) == IF Blank(text) THEN default ELSE text

\* 'Unknown', 'unknown' and 'walk'
Unknown == Some(<<85, 110, 107, 110, 111, 119, 110>>)

UnknownMode == Some(<<117, 110, 107, 110, 111, 119, 110>>)

Walk == Some(<<119, 97, 108, 107>>)

\* the name of a LegStart or LegEnd: StopPointName, else LocationName
PointName(p) ==
    IF p = None THEN None
    ELSE OrElse(Val(p).name, Val(p).location_name)

\* the time of a LegStart or LegEnd: Time, else EstimatedTime
PointTime(p) ==
    IF p = None THEN None
    ELSE OrElse(Val(p).time, Val(p).estimated)

\* _parse_continuous_leg(leg)
ParseContinuousLeg(leg) ==
    ContinuousLeg("continuous", Walk,
                  OrElse(PointName(leg.legstart), Unknown),
                  OrElse(PointName(leg.legend), Unknown),
                  PointTime(leg.legstart), PointTime(leg.legend),
                  leg.duration)

\* the time at a LegBoard or LegAlight: EstimatedTime, else TimetabledTime
CallTime(p) ==
    IF p = None THEN None
    ELSE OrElse(Val(p).estimated, Val(p).timetabled)

CallName(p) == IF p = None THEN None ELSE Val(p).name

CallPlanned(p) == IF p = None THEN None ELSE Val(p).timetabled

ServiceText(service, field) ==
    IF service = None THEN None ELSE Val(service)[field]

\* _parse_timed_leg(leg)
ParseTimedLeg(leg) ==
    TimedLeg("timed",
             OrElse(ServiceText(leg.service, "mode"), UnknownMode),
             OrElse(ServiceText(leg.service, "line"), Unknown),
             ServiceText(leg.service, "destination"),
             OrElse(CallName(leg.board), Unknown),
             OrElse(CallName(leg.alight), Unknown),
             CallTime(leg.board), CallPlanned(leg.board),
             CallTime(leg.alight), CallPlanned(leg.alight),
             leg.duration)

\* _parse_trip_leg(leg_elem): None for a leg that is neither
ParseTripLeg(leg_elem) ==
    IF leg_elem.continuous # None
    THEN Some(ParseContinuousLeg(Val(leg_elem.continuous)))
    ELSE IF leg_elem.timed # None
         THEN Some(ParseTimedLeg(Val(leg_elem.timed)))
         ELSE None

RECURSIVE ParseLegs(_)
\* the loop over trip.findall('trias:TripLeg'): if leg_data: legs.append
ParseLegs(leg_elems) ==
    IF leg_elems = <<>> THEN <<>>
    ELSE LET leg_data == ParseTripLeg(Head(leg_elems))
         IN  IF leg_data # None
             THEN <<Val(leg_data)>> \o ParseLegs(Tail(leg_elems))
             ELSE ParseLegs(Tail(leg_elems))

\* the trip_data of one Trip element
ParseTrip(trip) ==
    TripData(trip.start_time, trip.end_time, trip.duration,
             ParseLegs(trip.legs))

RECURSIVE ParseTripResults(_)
\* _parse_trip_results(root): a TripResult without Trip is passed over
ParseTripResults(raw) ==
    IF raw = <<>> THEN <<>>
    ELSE IF Head(raw).trip = None
         THEN ParseTripResults(Tail(raw))
         ELSE <<ParseTrip(Val(Head(raw).trip))>>
              \o ParseTripResults(Tail(raw))

----------------------------------------------------------------------------
(* SpecTrip: _parse_trip_results applied to every response of up to        *)
(* MaxTrips TripResult elements whose trips have up to MaxLegs legs        *)
(***************************************************************************)

\* TripResult elements in a parsed response
MaxTrips == 2

\* TripLeg elements in a Trip
MaxLegs == 2

\* the texts "A" and "B"
TextA == Some(<<65>>)

TextB == Some(<<66>>)

\* a walk from stop "A" (Time given) to the address "B" (an empty
\* StopPointName, a LocationName, an EstimatedTime only)
WalkLeg ==
    RawLeg(Some(ContinuousElem(
                    Some(LegPoint(TextA, None, None, Zulu(0))),
                    Some(LegPoint(Some(<<>>), TextB, Zulu(60), None)),
                    TextA)),
           None)

\* a ride on line "A" towards "B", boarding at "A" with a planned and an
\* estimated time, in a TimedLeg without LegAlight and without mode
RideLeg ==
    RawLeg(None,
           Some(TimedElem(Some(CallPoint(TextA, Zulu(0), Zulu(120))), None,
                          Some(ServiceElem(TextA, TextB, None)), None)))

\* a TripLeg with neither a ContinuousLeg nor a TimedLeg child (an
\* InterchangeLeg, for one)
OtherLeg == RawLeg(None, None)

\* a TripLeg with both children, all of whose own children are missing
BothLeg ==
    RawLeg(Some(ContinuousElem(None, None, None)),
           Some(TimedElem(None, None, None, None)))

LegPool == <<WalkLeg, RideLeg, OtherLeg, BothLeg>>

\* the TripResult elements a response is made of: one without Trip, and one
\* for every sequence of up to MaxLegs legs
TripPool ==
    {RawTrip(None)}
    \cup {RawTrip(Some(TripElem(Zulu(0), Zulu(120), TextA, legs))) :
             legs \in SeqsUpTo(Range(LegPool), MaxLegs)}

InitTrip ==
    /\ AppAtStart
    /\ now = 0
    /\ file = None
    /\ stop_cache = <<>>
    /\ cache_timestamp = 0
    /\ call \in {Received(raw) : raw \in SeqsUpTo(TripPool, MaxTrips)}
    /\ ret = Ret(NoneResult, FALSE, 0, FALSE)

\* _parse_trip_results(root), root holding the received elements
ParseTrips ==
    /\ call.op = "received"
    /\ call' = TripCall(call.raw)
    /\ ret' = Ret(List(ParseTripResults(call.raw)), FALSE, 0, FALSE)
    /\ UNCHANGED <<now, stop_cache, cache_timestamp, file, app>>

NextTrip == ParseTrips

SpecTrip == InitTrip /\ [][NextTrip]_vars

\* the TripResult elements of a response that have a Trip
WithTrip(raw) == SelectSeq(raw, LAMBDA r : r.trip # None)

\* the leg type a TripLeg element stands for
LegShape(leg_elem) ==
    IF leg_elem.continuous # None THEN "continuous"
    ELSE IF leg_elem.timed # None THEN "timed"
    ELSE "neither"

\* C11: the parsed legs of every trip have exactly one entry per TripLeg
\* element, in document order; a TripLeg that is neither a continuous nor a
\* timed leg has an entry too (of neither type) and is not omitted.
C11_OneLegPerTripLeg ==
    call.op = "_parse_trip_results" =>
        /\ Len(ret.v) = Len(WithTrip(call.raw))
        /\ \A i \in 1..Len(ret.v) :
               LET leg_elems == Val(WithTrip(call.raw)[i].trip).legs
                   legs == ret.v[i].legs
               IN  /\ Len(legs) = Len(leg_elems)
                   /\ \A j \in 1..Len(legs) :
                          LegShape(leg_elems[j]) # "neither"
                              => legs[j].type = LegShape(leg_elems[j])

----------------------------------------------------------------------------
(* Trip planning: TriasClient.get_trip                                     *)
(***************************************************************************)

\* search_location_by_name(origin, 10): the number of candidates asked for
TripCandidates == 10

\* the stop_id of a cached record whose stop_id is the empty string (stop
\* ids taken from a response are never empty: the parser passes over an
\* element whose reference has no text)
NoStopId == 0

\* what one run of search_location_by_name gives and leaves behind: its
\* result, the cache and the file after it, and the requests it sent
SearchOutcome(outcome, cache_after, file_after, sent) ==
    [outcome |-> outcome, cache_after |-> cache_after,
     file_after |-> file_after, sent |-> sent]

\* a LocationInformationRequest for up to limit stops named query
LocationRequest(query, limit) ==
    [op |-> "LocationInformationRequest", query |-> query, limit |-> limit]

\* the LocationRef element of a trip endpoint: a StopPointRef, a GeoPosition
\* or nothing
StopPointRef(stop_id) == Result("StopPointRef", stop_id)

GeoPosition(longitude, latitude) ==
    Result("GeoPosition", <<longitude, latitude>>)

EmptyRef == Result("empty", <<>>)

\* a TripRequest with the two LocationRef elements
TripRequest(origin_ref, dest_ref) ==
    [op |-> "TripRequest", origin_ref |-> origin_ref, dest_ref |-> dest_ref]

\* the 'origin' or 'destination' dict of the answer
Endpoint(stop_id, longitude, latitude, display) ==
    [stop_id |-> stop_id, longitude |-> longitude, latitude |-> latitude,
     display |-> display]

\* the dict get_trip returns
TripAnswer(origin_loc, dest_loc, trips) ==
    [origin_loc |-> origin_loc, dest_loc |-> dest_loc, trips |-> trips]

\* a run of get_trip(origin, destination)
PlanCall(origin, destination) ==
    [op |-> "get_trip", destination |-> destination, origin |-> origin]

\* the outcome of get_trip: its result, what the two name searches gave
\* (None for a search that was not made) and the requests sent upstream
PlanRet(result, origin_results, dest_results, sent) ==
    [kind |-> result.kind, v |-> result.v, sent |-> sent,
     origin_results |-> origin_results, dest_results |-> dest_results]

\* raise Exception(message)
RaisedWith(message) == Result("raise", <<message>>)

\* search_location_by_name(query, limit) on the given cache and file at
\* time t, as a function; fetch is what _fetch_location_by_name gives when
\* it is called
NameSearch(cache, f, t, query, limit, fetch) ==
    LET cached_results == SearchCache(cache, query, limit)
    IN  IF EndsAtCache(cached_results)
        THEN SearchOutcome(cached_results, cache, f, <<>>)
        ELSE IF fetch.kind = "raise"
             THEN SearchOutcome(fetch, cache, f,
                                <<LocationRequest(query, limit)>>)
             ELSE SearchOutcome(fetch, CacheAfterAdd(cache, fetch.v),
                                FileAfterAdd(f, cache, fetch.v, t),
                                <<LocationRequest(query, limit)>>)

\* a float that is neither None nor 0.0
TruthyNumber(x) == x # None /\ Val(x) # 0

\* the LocationRef built for the chosen location: the stop reference when
\* there is one, else the coordinates when both are truthy, else nothing
LocationRefOf(loc) ==
    IF loc.stop_id # NoStopId THEN StopPointRef(loc.stop_id)
    ELSE IF TruthyNumber(loc.latitude) /\ TruthyNumber(loc.longitude)
         THEN GeoPosition(Val(loc.longitude), Val(loc.latitude))
         ELSE EmptyRef

\* the endpoint dict: name is loc.get('stop_name') or the text asked for
EndpointOf(loc, text) ==
    Endpoint(loc.stop_id, loc.longitude, loc.latitude,
             IF loc.stop_name = <<>> THEN text ELSE loc.stop_name)

\* get_trip ends: the state it leaves
PlanEnds(origin, destination, result, o, d, cache, f, sent) ==
    /\ call' = PlanCall(origin, destination)
    /\ ret' = PlanRet(result, o, d, sent)
    /\ stop_cache' = cache
    /\ file' = f
    /\ UNCHANGED <<now, cache_timestamp, app>>

\* the trip request is built from the first candidates and sent; upstream
\* is what _make_request and _parse_trip_results give
RequestTrip(origin, destination, o, d, upstream) ==
    LET origin_loc == o.outcome.v[1]
        dest_loc == d.outcome.v[1]
        request == TripRequest(LocationRefOf(origin_loc),
                               LocationRefOf(dest_loc))
    IN  PlanEnds(origin, destination,
                 IF upstream.kind = "raise" THEN upstream
                 ELSE Result("dict",
                             TripAnswer(EndpointOf(origin_loc, origin),
                                        EndpointOf(dest_loc, destination),
                                        upstream.v)),
                 Some(o.outcome), Some(d.outcome), d.cache_after,
                 d.file_after, o.sent \o d.sent \o <<request>>)

\* an unresolved endpoint that is answered with an empty result
UnresolvedReturned(message) == List(<<>>)

\* raise Exception(f"Could not resolve ...") for an endpoint whose search
\* gave no candidates
Unresolved(message) == RaisedWith(message)

\* what the trip request may give: Raised when _make_request fails, else
\* the parsed trips of a response of up to n trips (each a walk)
TripFetches(n) ==
    {Raised}
    \cup {List(ParseTripResults(raw)) :
             raw \in SeqsUpTo({RawTrip(Some(TripElem(Zulu(0), Zulu(120),
                                                     TextA, <<WalkLeg>>)))},
                              n)}

\* the destination is resolved, d being what its search gave
DestinationSearched(origin, destination, o, d, maxResp) ==
    IF d.outcome.kind = "raise"
    THEN PlanEnds(origin, destination, d.outcome, Some(o.outcome),
                  Some(d.outcome), d.cache_after, d.file_after,
                  o.sent \o d.sent)
    ELSE IF ~Truthy(d.outcome)
         THEN PlanEnds(origin, destination,
                       Unresolved("Could not resolve destination"),
                       Some(o.outcome), Some(d.outcome), d.cache_after,
                       d.file_after, o.sent \o d.sent)
         ELSE \E upstream \in TripFetches(maxResp) :
                  RequestTrip(origin, destination, o, d, upstream)

\* the origin is resolved, o being what its search gave; then the
\* destination is searched on the cache the first search left
OriginSearched(origin, destination, o, maxResp) ==
    IF o.outcome.kind = "raise"
    THEN PlanEnds(origin, destination, o.outcome, Some(o.outcome), None,
                  o.cache_after, o.file_after, o.sent)
    ELSE IF ~Truthy(o.outcome)
         THEN PlanEnds(origin, destination,
                       Unresolved("Could not resolve origin"),
                       Some(o.outcome), None, o.cache_after, o.file_after,
                       o.sent)
         ELSE LET cached_results ==
                      SearchCache(o.cache_after, destination, TripCandidates)
              IN  IF EndsAtCache(cached_results)
                  THEN DestinationSearched(origin, destination, o,
                           NameSearch(o.cache_after, o.file_after, now,
                                      destination, TripCandidates, Raised),
                           maxResp)
                  ELSE \E fetch \in Fetches(maxResp) :
                           DestinationSearched(origin, destination, o,
                               NameSearch(o.cache_after, o.file_after, now,
                                          destination, TripCandidates, fetch),
                               maxResp)

----------------------------------------------------------------------------
(* SpecPlan: a client constructed over a cache file, then get_trip calls   *)
(***************************************************************************)

\* results in an upstream response to a request of get_trip
MaxPlanResp == 1

\* the records a cache file may hold: "aa" and "Ba" as the parser gives
\* them, "ab" with an empty stop_id and coordinates, and "bA" with an empty
\* stop_id and without coordinates
FiledStops ==
    << StopRecord(1, <<1>>, <<97, 97>>, Some(<<65>>), Some(1), Some(1), 1, None),
       StopRecord(3, <<3>>, <<66, 97>>, Some(<<98>>), Some(2), Some(0), 1, None),
       StopRecord(NoStopId, <<>>, <<97, 98>>, Some(<<65>>), Some(2), Some(1), 1,
                  None),
       StopRecord(NoStopId, <<>>, <<98, 65>>, Some(<<65>>), None, None, 1,
                  None) >>

\* the cache files a client may start over: none, or one written at time 0
\* holding one of the records
PlanFiles ==
    {None} \cup {Some(CacheFile(0, <<FiledStops[i]>>)) : i \in 1..Len(FiledStops)}

InitPlan ==
    /\ AppAtStart
    /\ now = 0
    /\ file \in PlanFiles
    /\ stop_cache = LoadedCache(file, now)
    /\ cache_timestamp = LoadedTimestamp(file, now)
    /\ call = Call("init", <<>>, 0)
    /\ ret = Ret(NoneResult, FALSE, 0, FALSE)

\* get_trip(origin, destination)
GetTrip ==
    \E origin \in Range(Queries), destination \in Range(Queries) :
        LET cached_results == SearchCache(stop_cache, origin, TripCandidates)
        IN  IF EndsAtCache(cached_results)
            THEN OriginSearched(origin, destination,
                     NameSearch(stop_cache, file, now, origin, TripCandidates,
                                Raised),
                     MaxPlanResp)
            ELSE \E fetch \in Fetches(MaxPlanResp) :
                     OriginSearched(origin, destination,
                         NameSearch(stop_cache, file, now, origin,
                                    TripCandidates, fetch),
                         MaxPlanResp)

NextPlan == GetTrip

SpecPlan == InitPlan /\ [][NextPlan]_vars

\* the TripRequest documents among the requests the last operation sent
TripRequestsSent == SelectSeq(ret.sent, LAMBDA r : r.op = "TripRequest")

\* a name search of get_trip that was made and gave no candidates
NoCandidates(results) ==
    results # None /\ Val(results).kind = "list" /\ Val(results).v = <<>>

\* C12: get_trip fails with an unresolved-location error when the origin
\* search or the destination search returns no candidates, and then no trip
\* request has been sent upstream.
C12_UnresolvedLocation ==
    (/\ call.op = "get_trip"
     /\ NoCandidates(ret.origin_results) \/ NoCandidates(ret.dest_results))
        => /\ ret.kind = "raise"
           /\ ret.v \in {<<"Could not resolve origin">>,
                         <<"Could not resolve destination">>}
           /\ TripRequestsSent = <<>>

\* a get_trip whose origin was found and whose destination search went
\* upstream and came back empty
C12_Witness ==
    /\ call.op = "get_trip"
    /\ ret.origin_results # None /\ Truthy(Val(ret.origin_results))
    /\ NoCandidates(ret.dest_results)
    /\ ret.sent # <<>>

----------------------------------------------------------------------------
(* Transport: TriasClient._make_request                                    *)
(***************************************************************************)

\* the body of an HTTP response: its bytes, and whether ET.fromstring
\* accepts them as an XML document
HttpBody(bytes, wellformed) == [bytes |-> bytes, wellformed |-> wellformed]

\* what requests.post meets: connected is FALSE when it raises a
\* RequestException (no connection, or the timeout of 30 s), else status
\* and body are those of the response
HttpExchange(connected, status, body) ==
    [connected |-> connected, status |-> status, body |-> body]

\* a run of _make_request over the exchange raw
RequestCall(raw) == [op |-> "_make_request", raw |-> raw]

\* the bytes bytes.strip() removes: tab, LF, VT, FF, CR and space
IsSpace(b) == b \in {9, 10, 11, 12, 13, 32}

RECURSIVE LStrip(_)
LStrip(bytes) ==
    IF bytes # <<>> /\ IsSpace(Head(bytes)) THEN LStrip(Tail(bytes)) ELSE bytes

RECURSIVE RStrip(_)
RStrip(bytes) ==
    IF bytes # <<>> /\ IsSpace(bytes[Len(bytes)])
    THEN RStrip(SubSeq(bytes, 1, Len(bytes) - 1))
    ELSE bytes

\* bytes.strip()
Strip(bytes) == RStrip(LStrip(bytes))

\* response.raise_for_status() raises an HTTPError: a status from 400 to 599
RaisesForStatus(status) == 400 <= status /\ status < 600

\* if response.status_code >= 400: ... response.raise_for_status()
StatusFails(status) == status >= 400 /\ RaisesForStatus(status)

\* if not response.content or len(response.content.strip()) == 0
EmptyResponse(bytes) == bytes = <<>> \/ Len(Strip(bytes)) = 0

\* the parsed document _make_request returns
Root(bytes) == Result("root", bytes)

\* _make_request(xml_body) over the exchange x
MakeRequest(x) ==
    IF ~x.connected THEN RaisedWith("API request failed")
    ELSE IF StatusFails(x.status) THEN RaisedWith("API request failed")
    ELSE IF EmptyResponse(x.body.bytes)
         THEN RaisedWith("API returned empty response")
    ELSE IF ~x.body.wellformed
         THEN RaisedWith("Failed to parse XML response")
    ELSE Root(x.body.bytes)

----------------------------------------------------------------------------
(* SpecTransport: _make_request over every exchange of StatusCodes and     *)
(* Bodies                                                                  *)
(***************************************************************************)

\* status codes of a response
StatusCodes ==
    <<200, 201, 204, 299, 300, 301, 304, 399, 400, 404, 499, 500, 503, 599,
      600>>

\* bodies of a response: nothing, a space and a line feed, "<a/>", the same
\* within white space, and "a"
Bodies ==
    << HttpBody(<<>>, FALSE),
       HttpBody(<<32, 10>>, FALSE),
       HttpBody(<<60, 97, 47, 62>>, TRUE),
       HttpBody(<<10, 60, 97, 47, 62, 32>>, TRUE),
       HttpBody(<<97>>, FALSE) >>

Exchanges ==
    {HttpExchange(FALSE, 0, Bodies[1])}
    \cup {HttpExchange(TRUE, StatusCodes[i], Bodies[j]) :
             i \in 1..Len(StatusCodes), j \in 1..Len(Bodies)}

InitTransport ==
    /\ AppAtStart
    /\ now = 0
    /\ file = None
    /\ stop_cache = <<>>
    /\ cache_timestamp = 0
    /\ call \in {Received(raw) : raw \in Exchanges}
    /\ ret = Ret(NoneResult, FALSE, 0, FALSE)

\* _make_request(xml_body), the upstream answering with the drawn exchange
SendRequest ==
    /\ call.op = "received"
    /\ call' = RequestCall(call.raw)
    /\ ret' = Ret(MakeRequest(call.raw), TRUE, 0, FALSE)
    /\ UNCHANGED <<now, stop_cache, cache_timestamp, file, app>>

NextTransport == SendRequest

SpecTransport == InitTransport /\ [][NextTransport]_vars

\* a status from 200 to 299
IsSuccess(status) == 200 <= status /\ status <= 299

\* C14: _make_request yields a response only when the HTTP status is 2xx
\* and the body is non-empty; on connection failure, on every non-2xx
\* status and on an empty or whitespace-only body it raises and yields no
\* response.
C14_ResponseOnlyOn2xx ==
    call.op = "_make_request" =>
        /\ ret.kind \in {"root", "raise"}
        /\ ret.kind = "root" =>
               /\ call.raw.connected
               /\ IsSuccess(call.raw.status)
               /\ Strip(call.raw.body.bytes) # <<>>

----------------------------------------------------------------------------
(* SpecDocs: the three parsers, each applied to every response to its      *)
(* request of up to MaxDocs result elements                                *)
(***************************************************************************)

\* result elements in a response
MaxDocs == 2

\* a response that awaits parsing: raw are the result elements of the
\* answer to request, which is a LocationInformationRequest, a
\* StopEventRequest or a TripRequest
Answered(request, raw) ==
    [op |-> "answered", raw |-> raw, request |-> request]

InitDocs ==
    /\ AppAtStart
    /\ now = 0
    /\ file = None
    /\ stop_cache = <<>>
    /\ cache_timestamp = 0
    /\ call \in
        {Answered("LocationInformationRequest", raw) :
            raw \in SeqsUpTo(Range(ParsePool), MaxDocs)}
        \cup {Answered("StopEventRequest", raw) :
                 raw \in SeqsUpTo(Range(DeparturePool), MaxDocs)}
        \cup {Answered("TripRequest", raw) :
                 raw \in SeqsUpTo(TripPool, MaxDocs)}
    /\ ret = Ret(NoneResult, FALSE, 0, FALSE)

\* return self._parse_location_results(response_root)
ParseLocationResponse ==
    /\ call.op = "answered" /\ call.request = "LocationInformationRequest"
    /\ call' = ParseCall(call.raw)
    /\ ret' = Ret(List(ParseLocationResults(call.raw)), FALSE, 0, FALSE)
    /\ UNCHANGED <<now, stop_cache, cache_timestamp, file, app>>

\* return self._parse_departure_results(response_root)
ParseDepartureResponse ==
    /\ call.op = "answered" /\ call.request = "StopEventRequest"
    /\ call' = DepartureCall(call.raw)
    /\ ret' = Ret(List(ParseDepartureResults(call.raw, now)), FALSE, 0, FALSE)
    /\ UNCHANGED <<now, stop_cache, cache_timestamp, file, app>>

\* trips = self._parse_trip_results(response_root)
ParseTripResponse ==
    /\ call.op = "answered" /\ call.request = "TripRequest"
    /\ call' = TripCall(call.raw)
    /\ ret' = Ret(List(ParseTripResults(call.raw)), FALSE, 0, FALSE)
    /\ UNCHANGED <<now, stop_cache, cache_timestamp, file, app>>

NextDocs ==
    \/ ParseLocationResponse
    \/ ParseDepartureResponse
    \/ ParseTripResponse

SpecDocs == InitDocs /\ [][NextDocs]_vars

\* a LocationResult element that is malformed: it has no Location, or its
\* stop has no reference element or one without text, or no name or an
\* empty one, or a coordinate that is no number
MalformedLocation(r) ==
    \/ r.kind = "NoLocation"
    \/ /\ r.kind \in {"StopPoint", "StopPlace"}
       /\ \/ ~r.refElem
          \/ r.ref = None
          \/ r.name = None \/ r.name = Some(<<>>)
          \/ (r.lon # None /\ ~Val(r.lon).ok)
          \/ (r.lat # None /\ ~Val(r.lat).ok)

\* a StopEventResult element that is malformed: it has no StopEvent, or
\* lacks one of ThisCall, CallAtStop, ServiceDeparture and Service
MalformedDeparture(r) == ~r.event \/ ~r.complete

\* a TripResult element that is malformed: it has no Trip
MalformedTrip(r) == r.trip = None

\* the elements of a response that are stops (not addresses) and well formed
SoundStops(raw) ==
    SelectSeq(raw, LAMBDA r : r.kind \in {"StopPoint", "StopPlace"}
                              /\ ~MalformedLocation(r))

RECURSIVE SumPlatforms(_)
SumPlatforms(stops) ==
    IF stops = <<>> THEN 0
    ELSE Head(stops).platforms + SumPlatforms(Tail(stops))

\* C15: in location, departure and trip parsing a malformed result element
\* never fails the document: the parser returns a list, the list is the
\* one it returns for the document without its malformed elements, and
\* every other element is in it (every well-formed stop as a platform of a
\* StopRecord, every well-formed departure and trip as one record).
C15_MalformedElementsSkipped ==
    /\ call.op = "_parse_location_results" =>
           /\ ret.kind = "list"
           /\ ret.v = ParseLocationResults(
                          SelectSeq(call.raw,
                                    LAMBDA r : ~MalformedLocation(r)))
           /\ SumPlatforms(ret.v) = Len(SoundStops(call.raw))
    /\ call.op = "_parse_departure_results" =>
           /\ ret.kind = "list"
           /\ ret.v = ParseDepartureResults(
                          SelectSeq(call.raw,
                                    LAMBDA r : ~MalformedDeparture(r)), now)
           /\ Len(ret.v) = Len(SelectSeq(call.raw,
                                         LAMBDA r : ~MalformedDeparture(r)))
    /\ call.op = "_parse_trip_results" =>
           /\ ret.kind = "list"
           /\ ret.v = ParseTripResults(
                          SelectSeq(call.raw, LAMBDA r : ~MalformedTrip(r)))
           /\ Len(ret.v) = Len(SelectSeq(call.raw,
                                         LAMBDA r : ~MalformedTrip(r)))

\* a departure response whose first element lacks ThisCall and whose second
\* is well formed gave one record
C15_Witness ==
    /\ call.op = "_parse_departure_results"
    /\ Len(call.raw) = 2
    /\ call.raw[1].event /\ ~call.raw[1].complete
    /\ ~MalformedDeparture(call.raw[2])
    /\ Len(ret.v) = 1

----------------------------------------------------------------------------
(* Cache files that cannot be read or written: _load_stop_cache and        *)
(* _save_stop_cache over a damaged file and a failing disk                 *)
(***************************************************************************)

\* a cache file that is not the document _save_stop_cache writes:
\*   damage   "unreadable" (open raises), "truncated" (the beginning of a
\*            document, as a crash or a failure in mid-write leaves it),
\*            "not json", "no timestamp" (the key is missing),
\*            "bad timestamp" (fromisoformat rejects it), "aware timestamp"
\*            (it carries a UTC offset) or "no stops" (the key is missing)
\*   timestamp   the time it holds, for "no stops"
Damaged(timestamp, damage) == [timestamp |-> timestamp, damage |-> damage]

IsDamaged(f) == f # None /\ "damage" \in DOMAIN Val(f)

\* whether the try block of _load_stop_cache raises over the damaged file d
\* at time t: open, json.load, data['timestamp'], fromisoformat and the
\* subtraction from utcnow() raise; data['stops'] raises when it is reached,
\* which is when the timestamp is fresh
DamageRaises(d, t) ==
    \/ d.damage \in {"unreadable", "truncated", "not json", "no timestamp",
                     "bad timestamp", "aware timestamp"}
    \/ d.damage = "no stops" /\ t - d.timestamp < STOP_CACHE_TTL_HOURS

\* an exception that leaves the method
Uncaught(exception) == exception

\* except Exception as e: print(...)
Caught(exception) == NoneResult

\* the try block of _load_stop_cache at time t over the file f: the stops
\* it loads, None when it loads nothing (no file, or an expired one), or
\* what is left of an exception
LoadOutcome(f, t) ==
    IF f = None THEN NoneResult
    ELSE IF IsDamaged(f)
         THEN IF DamageRaises(Val(f), t) THEN Caught(Raised) ELSE NoneResult
         ELSE IF IsFresh(f, t) THEN List(Val(f).stops) ELSE NoneResult

\* stop_cache after _load_stop_cache
CacheAfterLoad(outcome) == IF outcome.kind = "list" THEN outcome.v ELSE <<>>

\* cache_timestamp after _load_stop_cache
TimestampAfterLoad(f, outcome, t) ==
    IF outcome.kind = "list" THEN Val(f).timestamp ELSE t

\* a run of _save_stop_cache; disk is what the write meets
SaveCall(disk) == [op |-> "_save_stop_cache", disk |-> disk]

\* the file after _save_stop_cache at time t when the write meets disk:
\* "ok", "refused" (open raises and the file stays as it is) or "torn" (the
\* write fails after open has emptied the file)
FileAfterWrite(f, cache, t, disk) ==
    IF cache = <<>> THEN f
    ELSE IF disk = "ok" THEN FileAfterSave(f, cache, t)
    ELSE IF disk = "refused" THEN f
    ELSE Some(Damaged(0, "truncated"))

\* what _save_stop_cache gives: nothing, the exception of a failed write
\* being caught
SaveOutcome(cache, disk) ==
    IF cache # <<>> /\ disk # "ok" THEN Caught(Raised) ELSE NoneResult

----------------------------------------------------------------------------
(* SpecDisk: a client constructed over any cache file, restarts, saves     *)
(* that may fail, and the clock                                            *)
(***************************************************************************)

\* the documents a sound cache file may hold: one or two stops, saved at 0
SoundFiles ==
    << CacheFile(0, <<FiledStops[1]>>),
       CacheFile(0, <<FiledStops[1], FiledStops[2]>>) >>

DamagedFiles ==
    << Damaged(0, "unreadable"), Damaged(0, "truncated"),
       Damaged(0, "not json"), Damaged(0, "no timestamp"),
       Damaged(0, "bad timestamp"), Damaged(0, "aware timestamp"),
       Damaged(0, "no stops") >>

\* TriasClient() constructed at time 0 or 1 over no file or over any of
\* the files
InitDisk ==
    /\ AppAtStart
    /\ now \in {0, 1}
    /\ file \in {None} \cup {Some(SoundFiles[i]) : i \in 1..Len(SoundFiles)}
                \cup {Some(DamagedFiles[i]) : i \in 1..Len(DamagedFiles)}
    /\ stop_cache = CacheAfterLoad(LoadOutcome(file, now))
    /\ cache_timestamp = TimestampAfterLoad(file, LoadOutcome(file, now), now)
    /\ call = LoadCall(now)
    /\ ret = Ret(LoadOutcome(file, now), FALSE, 0, FALSE)

\* _load_stop_cache() as the process restarts
LoadStopCache ==
    LET outcome == LoadOutcome(file, now)
    IN  /\ stop_cache' = CacheAfterLoad(outcome)
        /\ cache_timestamp' = TimestampAfterLoad(file, outcome, now)
        /\ call' = LoadCall(now)
        /\ ret' = Ret(IF outcome.kind = "raise" THEN outcome ELSE NoneResult,
                      FALSE, 0, FALSE)
        /\ UNCHANGED <<now, file, app>>

\* _save_stop_cache()
SaveStopCache ==
    \E disk \in {"ok", "refused", "torn"} :
        /\ file' = FileAfterWrite(file, stop_cache, now, disk)
        /\ call' = SaveCall(disk)
        /\ ret' = Ret(SaveOutcome(stop_cache, disk), FALSE, 0,
                      stop_cache # <<>> /\ disk = "ok")
        /\ UNCHANGED <<now, stop_cache, cache_timestamp, app>>

NextDisk ==
    \/ LoadStopCache
    \/ SaveStopCache
    \/ Tick

SpecDisk == InitDisk /\ [][NextDisk]_vars

\* after a load nothing was raised, and over a damaged file the cache is
\* empty
LoadSurvives ==
    call.op = "load" =>
        /\ ret.kind # "raise"
        /\ IsDamaged(file) => stop_cache = <<>>

\* a save raises nothing and leaves the in-memory cache as it was
SaveSurvives ==
    call'.op = "_save_stop_cache" =>
        /\ ret'.kind # "raise"
        /\ stop_cache' = stop_cache

\* C16: cache I/O failure is never fatal: a load over a cache file that is
\* unreadable, truncated, no JSON or missing its fields raises nothing and
\* leaves an empty in-memory cache, and a save that cannot write raises
\* nothing and leaves the in-memory cache unchanged.
C16_CacheIoNeverFatal == []LoadSurvives /\ [][SaveSurvives]_vars

\* a restart, a day after the start, over a truncated file
C16_Witness ==
    /\ call.op = "load"
    /\ call.at >= STOP_CACHE_TTL_HOURS
    /\ file = Some(Damaged(0, "truncated"))
    /\ stop_cache = <<>>

----------------------------------------------------------------------------
(* The batch refresh of the stop cache (src/app.py): build_cache starts a   *)
(* thread that runs build_cache_background, stop_cache_build asks it to     *)
(* stop, and search_location merges into the same cache on the request     *)
(* path.  One worker process handles one request at a time (sync workers,  *)
(* src/gunicorn_config.py), while the threads it started run on; a thread  *)
(* takes one step at a time and any other thread may step in between.      *)
(***************************************************************************)

\* at most this many refresh threads are started
MaxBuilds == 2

\* at most this many searches are handled
MaxSearches == 1

\* the default of the limit parameter of search_location
DEFAULT_NUMBER_OF_RESULTS == 10

\* 'Abgeschlossen'
Abgeschlossen ==
    <<65, 98, 103, 101, 115, 99, 104, 108, 111, 115, 115, 101, 110>>

\* the value of 'cities' in the JSON body of a build request: null or
\* ["a", "B"]
CityLists == <<None, Some(<<(<<97>>), (<<66>>)>>)>>

\* what _fetch_location_by_name may give a thread: Raised when _make_request
\* fails or times out, else the parsed list, of one stop or of a batch
AppFetches ==
    << Raised,
       List(ParseLocationResults(NumberedResponse(0, 1))),
       List(ParseLocationResults(NumberedResponse(0, SaveBatch))) >>

IsRefresh(th) == th.target = "build_cache_background"

IsSearch(th) == th.target = "search_location"

\* the thread has not ended
Alive(th) == th.pc # "done"

\* the refresh threads that have not ended
Refreshing == {t \in 1..Len(threads) : IsRefresh(threads[t]) /\ Alive(threads[t])}

\* the number of threads started for target
Started(target) ==
    Cardinality({t \in 1..Len(threads) : threads[t].target = target})

\* the worker is inside search_location
Handling == \E t \in 1..Len(threads) : IsSearch(threads[t]) /\ Alive(threads[t])

\* thread t goes on as th
Becomes(t, th) == threads' = [threads EXCEPT ![t] = th]

\* thread t moves to pc
Goto(t, pc) == Becomes(t, [threads[t] EXCEPT !.pc = pc])

\* build_cache(): rejected while the running flag is set, else a thread is
\* started; the response then reports len(cities).  No more than maxBuilds
\* threads are started; lists are the values of 'cities' that arrive
BuildFrom(lists, maxBuilds) ==
    /\ ~Handling
    /\ \E k \in 1..Len(lists) :
        LET cities == lists[k]
        IN  /\ call' = AppCall("build_cache", cities)
            /\ IF cache_build_progress.running
               THEN /\ ret' = Reply(400, None)
                    /\ UNCHANGED threads
               ELSE /\ Started("build_cache_background") < maxBuilds
                    /\ threads' = Append(threads,
                           Thread("build_cache_background", "start", cities,
                                  0, <<>>, <<>>, FALSE))
                    /\ ret' = IF cities = None THEN Reply(500, None)
                              ELSE Reply(200, Some(Len(Val(cities))))
    /\ UNCHANGED <<now, stop_cache, cache_timestamp, file, cache_build_progress>>

Build(maxBuilds) == BuildFrom(CityLists, maxBuilds)

BuildCache == Build(MaxBuilds)

\* stop_cache_build(): clears the running flag
StopCacheBuild ==
    /\ ~Handling
    /\ cache_build_progress' = [cache_build_progress EXCEPT !.running = FALSE]
    /\ threads' = [t \in 1..Len(threads) |->
                     IF IsRefresh(threads[t]) /\ threads[t].pc \notin {"start", "done"}
                     THEN [threads[t] EXCEPT !.stopped = TRUE]
                     ELSE threads[t]]
    /\ call' = AppCall("stop_cache_build", None)
    /\ ret' = Reply(200, None)
    /\ UNCHANGED <<now, stop_cache, cache_timestamp, file>>

\* build_cache_background, lines 28 to 31: the flag is set, then len(cities)
\* is taken, which raises outside the try statement when cities is no list
RefreshStart(t) ==
    /\ IsRefresh(threads[t]) /\ threads[t].pc = "start"
    /\ IF threads[t].cities = None
       THEN /\ cache_build_progress' =
                   [cache_build_progress EXCEPT !.running = TRUE]
            /\ Goto(t, "done")
       ELSE /\ cache_build_progress' =
                   Progress(TRUE, Len(Val(threads[t].cities)), 0,
                            cache_build_progress.current_city, None)
            /\ Goto(t, "check")
    /\ UNCHANGED <<now, stop_cache, cache_timestamp, file, call, ret>>

\* the head of the loop: the next city, unless the list is through or the
\* flag is clear
RefreshCheck(t) ==
    /\ IsRefresh(threads[t]) /\ threads[t].pc = "check"
    /\ LET cities == Val(threads[t].cities)
           i == threads[t].i
       IN  IF i >= Len(cities) \/ ~cache_build_progress.running
           THEN /\ Goto(t, "finally")
                /\ UNCHANGED cache_build_progress
           ELSE /\ cache_build_progress' =
                       [cache_build_progress EXCEPT !.current = i + 1,
                                                    !.current_city = cities[i + 1]]
                /\ Goto(t, "fetch")
    /\ UNCHANGED <<now, stop_cache, cache_timestamp, file, call, ret>>

\* trias._fetch_location_by_name(city, stops_per_city); an exception is
\* caught and printed, and the loop goes on
RefreshFetch(t) ==
    /\ IsRefresh(threads[t]) /\ threads[t].pc = "fetch"
    /\ \E k \in 1..Len(AppFetches) :
        LET fetch == AppFetches[k]
        IN  IF fetch.kind = "raise"
            THEN Becomes(t, [threads[t] EXCEPT !.pc = "check", !.i = @ + 1])
            ELSE Becomes(t, [threads[t] EXCEPT !.pc = "merge",
                                               !.results = fetch.v])
    /\ UNCHANGED <<now, stop_cache, cache_timestamp, file, call, ret,
                   cache_build_progress>>

\* where a thread goes on after _add_to_cache
AfterAdd(th) == IF IsRefresh(th) THEN "sleep" ELSE "reply"

\* _add_to_cache, lines 73 to 76: the ids are read and the new stops chosen
AddToCacheRead(t) ==
    /\ threads[t].pc = "merge"
    /\ LET new_stops == NewStops(ExistingIds(stop_cache), threads[t].results)
       IN  Becomes(t, [threads[t] EXCEPT
                         !.pc = IF new_stops = <<>> THEN AfterAdd(threads[t])
                                ELSE "extend",
                         !.new_stops = new_stops])
    /\ UNCHANGED <<now, stop_cache, cache_timestamp, file, call, ret,
                   cache_build_progress>>

\* _add_to_cache, line 77: self.stop_cache.extend(new_stops)
AddToCacheExtend(t) ==
    /\ threads[t].pc = "extend"
    /\ stop_cache' = stop_cache \o threads[t].new_stops
    /\ Goto(t, "save")
    /\ UNCHANGED <<now, cache_timestamp, file, call, ret, cache_build_progress>>

\* _add_to_cache, lines 79 and 80: the cache is saved after a batch, or when
\* its length is a multiple of fifty
AddToCacheSave(t) ==
    /\ threads[t].pc = "save"
    /\ file' = IF \/ Len(threads[t].new_stops) >= SaveBatch
                  \/ Len(stop_cache) % SaveEvery = 0
               THEN FileAfterSave(file, stop_cache, now)
               ELSE file
    /\ Becomes(t, [threads[t] EXCEPT !.pc = AfterAdd(threads[t]),
                                     !.new_stops = <<>>])
    /\ UNCHANGED <<now, stop_cache, cache_timestamp, call, ret,
                   cache_build_progress>>

\* time.sleep(0.5), and on to the next city
RefreshSleep(t) ==
    /\ IsRefresh(threads[t]) /\ threads[t].pc = "sleep"
    /\ Becomes(t, [threads[t] EXCEPT !.pc = "check", !.i = @ + 1,
                                     !.results = <<>>, !.new_stops = <<>>])
    /\ UNCHANGED <<now, stop_cache, cache_timestamp, file, call, ret,
                   cache_build_progress>>

\* the finally clause
RefreshFinally(t) ==
    /\ IsRefresh(threads[t]) /\ threads[t].pc = "finally"
    /\ cache_build_progress' =
           [cache_build_progress EXCEPT !.running = FALSE,
                                        !.current_city = Abgeschlossen]
    /\ Goto(t, "done")
    /\ UNCHANGED <<now, stop_cache, cache_timestamp, file, call, ret>>

\* search_location() is entered with the query q
SearchLocation ==
    /\ ~Handling
    /\ Started("search_location") < MaxSearches
    /\ \E k \in 1..Len(Queries) :
        threads' = Append(threads,
                       Thread("search_location", "lookup", Some(<<Queries[k]>>),
                              0, <<>>, <<>>, FALSE))
    /\ UNCHANGED <<now, stop_cache, cache_timestamp, file, call, ret,
                   cache_build_progress>>

\* search_location answers result and the worker is free again
Replies(t, result) ==
    /\ call' = AppCall("search_location", threads[t].cities)
    /\ ret' = IF result.kind = "raise" THEN Reply(500, None)
              ELSE Reply(200, Some(result.v))
    /\ Becomes(t, [threads[t] EXCEPT !.pc = "done", !.results = <<>>,
                                     !.new_stops = <<>>])

\* search_location_by_name, lines 184 to 189: the cache lookup
SearchLookup(t) ==
    /\ IsSearch(threads[t]) /\ threads[t].pc = "lookup"
    /\ LET cached_results == SearchCache(stop_cache, Val(threads[t].cities)[1],
                                         DEFAULT_NUMBER_OF_RESULTS)
       IN  IF EndsAtCache(cached_results)
           THEN Replies(t, cached_results)
           ELSE Goto(t, "fetch") /\ UNCHANGED <<call, ret>>
    /\ UNCHANGED <<now, stop_cache, cache_timestamp, file, cache_build_progress>>

\* search_location_by_name, line 193: the fetch; an exception becomes the
\* response 500
SearchFetch(t) ==
    /\ IsSearch(threads[t]) /\ threads[t].pc = "fetch"
    /\ \E k \in 1..Len(AppFetches) :
        LET fetch == AppFetches[k]
        IN  IF fetch.kind = "raise"
            THEN Replies(t, fetch)
            ELSE /\ Becomes(t, [threads[t] EXCEPT !.pc = "merge",
                                                  !.results = fetch.v])
                 /\ UNCHANGED <<call, ret>>
    /\ UNCHANGED <<now, stop_cache, cache_timestamp, file, cache_build_progress>>

\* search_location returns the fetched results
SearchReply(t) ==
    /\ IsSearch(threads[t]) /\ threads[t].pc = "reply"
    /\ Replies(t, List(threads[t].results))
    /\ UNCHANGED <<now, stop_cache, cache_timestamp, file, cache_build_progress>>

\* one step of thread t
ThreadStep(t) ==
    /\ t <= Len(threads)
    /\ \/ RefreshStart(t)
       \/ RefreshCheck(t)
       \/ RefreshFetch(t)
       \/ AddToCacheRead(t)
       \/ AddToCacheExtend(t)
       \/ AddToCacheSave(t)
       \/ RefreshSleep(t)
       \/ RefreshFinally(t)
       \/ SearchLookup(t)
       \/ SearchFetch(t)
       \/ SearchReply(t)

NextApp ==
    \/ BuildCache
    \/ StopCacheBuild
    \/ \E t \in 1..Len(threads) : RefreshStart(t)
    \/ \E t \in 1..Len(threads) : RefreshCheck(t)
    \/ \E t \in 1..Len(threads) : RefreshFetch(t)
    \/ \E t \in 1..Len(threads) : AddToCacheRead(t)
    \/ \E t \in 1..Len(threads) : AddToCacheExtend(t)
    \/ \E t \in 1..Len(threads) : AddToCacheSave(t)
    \/ \E t \in 1..Len(threads) : RefreshSleep(t)
    \/ \E t \in 1..Len(threads) : RefreshFinally(t)

\* builds, stops and the refresh threads
SpecApp == Init /\ [][NextApp]_vars

\* every thread that can take a step takes one in the end: the scheduler
\* runs every runnable thread, time.sleep returns, and a transport call
\* returns or times out
Scheduled == \A t \in 1..MaxBuilds : WF_vars(ThreadStep(t))

SpecAppFair == SpecApp /\ Scheduled

\* one refresh
BuildCacheOnce == Build(1)

NextRace ==
    \/ BuildCacheOnce
    \/ StopCacheBuild
    \/ SearchLocation
    \/ \E t \in 1..Len(threads) : RefreshStart(t)
    \/ \E t \in 1..Len(threads) : RefreshCheck(t)
    \/ \E t \in 1..Len(threads) : RefreshFetch(t)
    \/ \E t \in 1..Len(threads) : AddToCacheRead(t)
    \/ \E t \in 1..Len(threads) : AddToCacheExtend(t)
    \/ \E t \in 1..Len(threads) : AddToCacheSave(t)
    \/ \E t \in 1..Len(threads) : RefreshSleep(t)
    \/ \E t \in 1..Len(threads) : RefreshFinally(t)
    \/ \E t \in 1..Len(threads) : SearchLookup(t)
    \/ \E t \in 1..Len(threads) : SearchFetch(t)
    \/ \E t \in 1..Len(threads) : SearchReply(t)

\* one refresh, and searches on the request path
SpecRace == Init /\ [][NextRace]_vars

\* no two refresh threads are alive
AtMostOneRefresh == Cardinality(Refreshing) <= 1

\* a step taken while a refresh thread is alive starts no thread
RejectedWhileRefreshing == Refreshing # {} => Len(threads') = Len(threads)

\* C17: at most one batch refresh executes at any time: under every
\* interleaving of build requests, stop requests and refresh threads, a build
\* request made while a refresh is in progress is rejected and starts no
\* second refresh
C17_OneRefreshAtATime ==
    []AtMostOneRefresh /\ [][RejectedWhileRefreshing]_vars

\* a refresh that was asked to stop goes from the head of its loop to no
\* further fetch
NoFetchAfterStop ==
    \A t \in 1..Len(threads) :
        threads[t].stopped /\ threads[t].pc = "check"
            => threads'[t].pc # "fetch"

\* thread t was asked to stop while it refreshed
Stopped(t) == t <= Len(threads) /\ threads[t].stopped

\* thread t has ended
Ended(t) == t <= Len(threads) /\ threads[t].pc = "done"

\* C18: cancellation is cooperative and effective: after a stop request made
\* while a refresh is in progress, that refresh starts no locality fetch
\* other than the one in flight, and then it ends
C18_StopIsEffective ==
    /\ [][NoFetchAfterStop]_vars
    /\ \A t \in 1..MaxBuilds : Stopped(t) ~> Ended(t)

\* the threads inside _add_to_cache that have chosen their new stops and
\* have not yet extended and saved the cache
InFlight == {t \in 1..Len(threads) : threads[t].pc \in {"extend", "save"}}

\* no stop_id is cached twice
NoStopTwice ==
    \A j, k \in 1..Len(stop_cache) :
        j # k => stop_cache[j].stop_id # stop_cache[k].stop_id

\* the stops a thread has merged are cached
NoStopLost ==
    \A t \in 1..Len(threads) :
        threads[t].pc \in {"save", "sleep", "reply"}
            => \A j \in 1..Len(threads[t].results) :
                   threads[t].results[j].stop_id \in ExistingIds(stop_cache)

\* C19: at most one mutation of the stop cache is in flight at any time: the
\* merge of the refresh thread and the merge of a search on the request path
\* never overlap, so no merged stop is lost and none is appended twice
C19_OneMutationInFlight ==
    /\ Cardinality(InFlight) <= 1
    /\ NoStopTwice
    /\ NoStopLost

\* thread t was started
Begun(t) == t <= Len(threads)

\* the step in which a refresh thread ends leaves the running flag clear
EndsCleared ==
    \A t \in 1..Len(threads) :
        IsRefresh(threads[t]) /\ Alive(threads[t]) /\ ~Alive(threads'[t])
            => ~cache_build_progress'.running

\* C20: every started batch refresh ends in time and leaves the job status
\* with running = false, whether it goes through all localities, is
\* cancelled, or fetches fail, given that each transport call returns or times
\* out
C20_RefreshTerminates ==
    /\ \A t \in 1..MaxBuilds : Begun(t) ~> Ended(t)
    /\ [][EndsCleared]_vars

----------------------------------------------------------------------------
(* Location parsing run again: _parse_location_results twice on one        *)
(* response                                                                *)
(***************************************************************************)

\* a response is parsed no more often than this
MaxRuns == 2

\* runs of _parse_location_results on the elements raw, runs so far
RegroupCall(raw, runs) ==
    [op |-> "_parse_location_results", raw |-> raw, runs |-> runs]

\* a grouping dict that outlives the call
GroupedKept(earlier) == earlier

\* grouped = {}: every call starts from an empty dict, whatever the call
\* before (earlier) has grouped
GroupedAtStart(earlier) == <<>>

\* _parse_location_results(root) after a call that left the groups earlier
ParseLocationResultsAfter(earlier, raw) ==
    MapSeq(CombinedResult,
           GroupByName(GroupedAtStart(earlier), FlatResults(raw)))

InitRegroup == InitParse

\* the first call
ParseFirst ==
    /\ call.op = "received"
    /\ call' = RegroupCall(call.raw, 1)
    /\ ret' = Ret(List(ParseLocationResultsAfter(<<>>, call.raw)), FALSE, 0,
                  FALSE)
    /\ UNCHANGED <<now, stop_cache, cache_timestamp, file, app>>

\* a further call on the same response
ParseAgain ==
    /\ call.op = "_parse_location_results"
    /\ call.runs < MaxRuns
    /\ call' = RegroupCall(call.raw, call.runs + 1)
    /\ ret' = Ret(List(ParseLocationResultsAfter(
                           GroupByName(<<>>, FlatResults(call.raw)),
                           call.raw)),
                  FALSE, 0, FALSE)
    /\ UNCHANGED <<now, stop_cache, cache_timestamp, file, app>>

NextRegroup ==
    \/ ParseFirst
    \/ ParseAgain

SpecRegroup == InitRegroup /\ [][NextRegroup]_vars

\* the second call gives the StopRecords of the first
SameStopRecords ==
    call.op = "_parse_location_results" /\ call'.op = "_parse_location_results"
        => Range(ret'.v) = Range(ret.v)

----------------------------------------------------------------------------
(* Location parsing: the groups                                            *)
(***************************************************************************)

\* a response has no more elements than this
MaxGrouped == 3

\* the elements a response is made of: stops named "aa" without coordinates,
\* with coordinates, with a longitude only and with a latitude only, a stop
\* "bb", and stops without name and with an empty name
GroupPool ==
    << RawResult("StopPoint", TRUE, Some(1), Some(<<97, 97>>), None, None, None),
       RawResult("StopPoint", TRUE, Some(2), Some(<<97, 97>>), None,
                 Num(1), Num(2)),
       RawResult("StopPlace", TRUE, Some(3), Some(<<97, 97>>), None,
                 Num(3), Num(0)),
       RawResult("StopPoint", TRUE, Some(4), Some(<<97, 97>>), None,
                 Num(4), None),
       RawResult("StopPoint", TRUE, Some(5), Some(<<97, 97>>), None,
                 None, Num(5)),
       RawResult("StopPoint", TRUE, Some(6), Some(<<98, 98>>), None,
                 Num(6), Num(6)),
       RawResult("StopPoint", TRUE, Some(7), None, None, Num(7), Num(7)),
       RawResult("StopPoint", TRUE, Some(8), Some(<<>>), None, None, None) >>

InitGroup ==
    /\ AppAtStart
    /\ now = 0
    /\ file = None
    /\ stop_cache = <<>>
    /\ cache_timestamp = 0
    /\ call \in {Received(raw) : raw \in SeqsUpTo(Range(GroupPool), MaxGrouped)}
    /\ ret = Ret(NoneResult, FALSE, 0, FALSE)

\* _parse_location_results(root), root holding the received elements
ParseGroups ==
    /\ call.op = "received"
    /\ call' = ParseCall(call.raw)
    /\ ret' = Ret(List(ParseLocationResults(call.raw)), FALSE, 0, FALSE)
    /\ UNCHANGED <<now, stop_cache, cache_timestamp, file, app>>

NextGroup == ParseGroups

SpecGroup == InitGroup /\ [][NextGroup]_vars

\* the kept raw results that carry the display name
Named(raw, name) ==
    SelectSeq(FlatResults(raw), LAMBDA r : r.stop_name = Some(name))

\* the non-empty display names among the kept raw results
DisplayNames(raw) ==
    {Val(FlatResults(raw)[j].stop_name) :
        j \in {k \in 1..Len(FlatResults(raw)) :
                 /\ FlatResults(raw)[k].stop_name # None
                 /\ Val(FlatResults(raw)[k].stop_name) # <<>>}}

\* the raw result has a coordinate pair
HasPair(r) == r.longitude # None /\ r.latitude # None

\* the record is the group of its name: the ids of all same-named results in
\* document order, and the pair of the first of them that has one
IsGroupOf(raw, rec) ==
    LET same == Named(raw, rec.stop_name)
        paired == SelectSeq(same, HasPair)
    IN  /\ rec.stop_ids = [j \in 1..Len(same) |-> same[j].stop_id]
        /\ paired # <<>> =>
               /\ rec.longitude = Head(paired).longitude
               /\ rec.latitude = Head(paired).latitude

\* C22: location parsing gives exactly one StopRecord per distinct non-empty
\* display name among the kept raw results; its stop_ids are the ids of all
\* same-named raw results in document order, and its coordinate pair is that
\* of the first same-named raw result that has coordinates
C22_OneRecordPerName ==
    call.op = "_parse_location_results" =>
        /\ Len(ret.v) = Cardinality(DisplayNames(call.raw))
        /\ {ret.v[j].stop_name : j \in 1..Len(ret.v)} = DisplayNames(call.raw)
        /\ \A j \in 1..Len(ret.v) : IsGroupOf(call.raw, ret.v[j])

----------------------------------------------------------------------------
(* The cache file as a JSON document: what _save_stop_cache writes and     *)
(* what _load_stop_cache reads back                                        *)
(***************************************************************************)

\* JSON values
JsonNull == Result("null", <<>>)

JsonNumber(x) == Result("number", x)

JsonString(s) == Result("string", s)

JsonArray(a) == Result("array", a)

\* json.dump of a coordinate: None becomes null
DumpFloat(x) == IF x = None THEN JsonNull ELSE JsonNumber(Val(x))

\* json.dump of a locality
DumpText(x) == IF x = None THEN JsonNull ELSE JsonString(Val(x))

\* json.dump of a StopRecord dict; a dict without the key 'distance' gives an
\* object without it
DumpStop(stop) ==
    StopRecord(JsonString(stop.stop_id),
               JsonArray([j \in 1..Len(stop.stop_ids) |->
                             JsonString(stop.stop_ids[j])]),
               JsonString(stop.stop_name), DumpText(stop.locality),
               DumpFloat(stop.longitude), DumpFloat(stop.latitude),
               JsonNumber(stop.platforms),
               IF stop.distance = None THEN None
               ELSE Some(JsonNumber(Val(stop.distance))))

\* the first stop only
StopsWrittenFirst(cache) == <<Head(cache)>>

\* 'stops': self.stop_cache
StopsWritten(cache) == cache

\* the document _save_stop_cache writes at time t: the timestamp in ISO
\* format and the stops
JsonDump(cache, t) ==
    CacheFile(JsonString(t),
              JsonArray([j \in 1..Len(StopsWritten(cache)) |->
                            DumpStop(StopsWritten(cache)[j])]))

\* json.load of a value that is null or of one kind
LoadOptional(j) == IF j.kind = "null" THEN None ELSE Some(j.v)

\* json.load of a stop object
LoadStop(doc) ==
    StopRecord(doc.stop_id.v,
               [j \in 1..Len(doc.stop_ids.v) |-> doc.stop_ids.v[j].v],
               doc.stop_name.v, LoadOptional(doc.locality),
               LoadOptional(doc.longitude), LoadOptional(doc.latitude),
               doc.platforms.v,
               IF doc.distance = None THEN None
               ELSE Some(Val(doc.distance).v))

\* json.load of the document, with datetime.fromisoformat of its timestamp
JsonLoad(doc) ==
    CacheFile(doc.timestamp.v,
              [j \in 1..Len(doc.stops.v) |-> LoadStop(doc.stops.v[j])])

\* the file read as _load_stop_cache reads it
FileRead(f) == IF f = None THEN None ELSE Some(JsonLoad(Val(f)))

\* the cache holds no more stops than this
MaxHeld == 2

\* the stops a cache may hold: a stop of two platforms without locality and
\* coordinates, a stop on the equator, and a stop that a search by
\* coordinates annotated with its distance
HeldStops ==
    << StopRecord(1, <<1, 2>>, <<97, 97>>, None, None, None, 2, None),
       StopRecord(3, <<3>>, <<66, 97>>, Some(<<98>>), Some(2), Some(0), 1, None),
       StopRecord(4, <<4>>, <<98, 98>>, Some(<<>>), Some(5), Some(1), 1, Some(0)) >>

\* a client holding some stops, and no cache file
InitRoundTrip ==
    /\ AppAtStart
    /\ now = 0
    /\ file = None
    /\ stop_cache \in SeqsUpTo(Range(HeldStops), MaxHeld)
    /\ cache_timestamp = 0
    /\ call = Call("init", <<>>, 0)
    /\ ret = Ret(NoneResult, FALSE, 0, FALSE)

\* _save_stop_cache(): nothing is written for an empty cache
Persist ==
    /\ file' = IF stop_cache # <<>> THEN Some(JsonDump(stop_cache, now))
               ELSE file
    /\ call' = SaveCall("ok")
    /\ ret' = Ret(NoneResult, FALSE, 0, stop_cache # <<>>)
    /\ UNCHANGED <<now, stop_cache, cache_timestamp, app>>

\* _load_stop_cache() as the process restarts
Reload ==
    /\ stop_cache' = LoadedCache(FileRead(file), now)
    /\ cache_timestamp' = LoadedTimestamp(FileRead(file), now)
    /\ call' = LoadCall(now)
    /\ ret' = Ret(NoneResult, FALSE, 0, FALSE)
    /\ UNCHANGED <<now, file, app>>

NextRoundTrip ==
    \/ Persist
    \/ Reload
    \/ Tick

SpecRoundTrip == InitRoundTrip /\ [][NextRoundTrip]_vars

\* a persist that wrote the file left in it the stops of the cache
PersistedInFull ==
    now' = now /\ call'.op = "_save_stop_cache" /\ ret'.saved
        => /\ file' # None
           /\ Val(FileRead(file')).stops = stop_cache
           /\ Val(FileRead(file')).timestamp = now

\* a load less than the TTL after the persist gives the stops of the file
LoadedInFull ==
    /\ now' = now
    /\ call'.op = "load"
    /\ file # None
    /\ now - Val(FileRead(file)).timestamp < STOP_CACHE_TTL_HOURS
    => stop_cache' = Val(FileRead(file)).stops

\* C23: persist writes the full current stop list: right after a successful
\* persist the stops of the file equal the in-memory cache, and a load less
\* than 24 hours later gives exactly that list in the same order
C23_PersistLoadRoundTrip ==
    [][PersistedInFull /\ LoadedInFull]_vars

\* a restart 23 hours after the persist loaded the two stops of the file
C23_Witness ==
    /\ call.op = "load"
    /\ call.at = STOP_CACHE_TTL_HOURS - 1
    /\ file # None
    /\ Val(FileRead(file)).timestamp = 0
    /\ Len(stop_cache) = 2
    /\ stop_cache = Val(FileRead(file)).stops
    /\ stop_cache[1].distance # stop_cache[2].distance

----------------------------------------------------------------------------
(* The age of cached records: a client that runs for days over an upstream *)
(* whose stop ids tell the hour of the response                            *)
(***************************************************************************)

\* the hour at which the upstream gave the record: the ids of the response
\* to a request made at hour t run from t * 2 * BigSize + 1 to
\* (t + 1) * 2 * BigSize
FetchedAt(stop) == (stop.stop_id - 1) \div (2 * BigSize)

\* search_location_by_name("a" or "b", 1) at the hour now
SearchAged ==
    \E query \in {<<97>>, <<98>>} :
        LET cached_results == SearchCache(stop_cache, query, 1)
        IN  IF EndsAtCache(cached_results)
            THEN AnswerFromCache(query, 1, cached_results)
            ELSE \E fetch \in TownFetches(now * 2 * BigSize) :
                    AnswerFromNetwork(query, 1, fetch, 2 * BigSize)

NextAge ==
    \/ Tick
    \/ Restart
    \/ SearchAged

SpecAge == Init /\ [][NextAge]_vars

\* this step is a name search answered from the cache
AnsweredFromCache ==
    /\ now' = now
    /\ call'.op = "search_location_by_name"
    /\ ret'.kind = "list" /\ ~ret'.net

\* C24: across loads, name searches, merges, persists and restarts, every
\* StopRecord a name search returns from the cache was obtained from the
\* upstream less than the TTL of 24 hours earlier: the TTL bounds records held
\* in memory as well and is not extended by persisting old records anew
C24_CachedWithinTtl ==
    [][AnsweredFromCache =>
          \A j \in 1..Len(ret'.v) :
              now - FetchedAt(ret'.v[j]) < STOP_CACHE_TTL_HOURS]_vars

----------------------------------------------------------------------------
(* Serialized merges: _add_to_cache called with one parsed batch after     *)
(* another, from an empty cache                                            *)
(***************************************************************************)

\* the cache is not grown beyond this many records
MaxBatched == 13

\* a run of _add_to_cache(stops)
MergeCall(stops) == [op |-> "_add_to_cache", stops |-> stops]

\* the batches, as _parse_location_results gives them: the stops "aa" and
\* "bb" that the upstream lists under one StopPointRef, the stop "aa"
\* alone, a stop "cc", and a town of ten stops
Batches ==
    << ParseLocationResults(
           << RawResult("StopPoint", TRUE, Some(1), Some(<<97, 97>>), None,
                        None, None),
              RawResult("StopPoint", TRUE, Some(1), Some(<<98, 98>>), None,
                        None, None) >>),
       ParseLocationResults(
           << RawResult("StopPoint", TRUE, Some(1), Some(<<97, 97>>), None,
                        None, None) >>),
       ParseLocationResults(
           << RawResult("StopPoint", TRUE, Some(12), Some(<<99, 99>>), None,
                        Num(1), Num(1)) >>),
       ParseLocationResults(NumberedResponse(1, SaveBatch)) >>

\* _add_to_cache(stops) with one of the batches
MergeBatch ==
    \E k \in 1..Len(Batches) :
        LET stops == Batches[k]
        IN  /\ Len(CacheAfterAdd(stop_cache, stops)) <= MaxBatched
            /\ AddToCache(stops)
            /\ call' = MergeCall(stops)
            /\ ret' = Ret(NoneResult, FALSE,
                          Len(NewStops(ExistingIds(stop_cache), stops)),
                          SavesOnAdd(stop_cache, stops))
            /\ UNCHANGED <<now, cache_timestamp, app>>

NextBatch ==
    \/ MergeBatch
    \/ Tick

SpecBatch == Init /\ [][NextBatch]_vars

\* C25: in every state reached from an empty cache by serialized merges, no
\* two records of the cache have the same primary id, also when one merged
\* batch itself holds two records of different names with the same primary id
C25_PrimaryIdsUnique ==
    \A j \in 1..Len(stop_cache) :
        \A k \in 1..Len(stop_cache) :
            stop_cache[j].stop_id = stop_cache[k].stop_id => j = k


----------------------------------------------------------------------------
(* Name searches against a fixed upstream: the service holds three stops   *)
(* and answers a query the same way every time                             *)
(***************************************************************************)

\* the stops the upstream service holds: "aa" in "A", "Ba" in "b", "ab" in
\* "A"
UpstreamStops ==
    ParseLocationResults(
        << RawResult("StopPoint", TRUE, Some(1), Some(<<97, 97>>), Some(<<65>>),
                     Num(1), Num(1)),
           RawResult("StopPlace", TRUE, Some(2), Some(<<66, 97>>), Some(<<98>>),
                     Num(2), Num(0)),
           RawResult("StopPoint", TRUE, Some(3), Some(<<97, 98>>), Some(<<65>>),
                     None, None) >>)

\* what _fetch_location_by_name(query, limit) gives with this upstream: the
\* stops whose name or locality holds the query, the best matches first, at
\* most limit of them
FetchFixed(query, limit) ==
    LET query_lower == Lower(query)
    IN  List(Take(SortMatches(CacheMatches(UpstreamStops, query_lower),
                              query_lower), limit))

\* the query whose answer is compared: "a"
Probed == <<97>>

\* search_location_by_name(query, limit) with the fixed upstream.  Requests
\* arrive until the probed query has been searched, so that a search for it
\* follows searches for other queries only; a restart (no file is written
\* here, so it empties the cache) begins anew
SearchFixed ==
    \E k \in 1..Len(Queries), limit \in 1..MaxLimit :
        LET query == Queries[k]
            cached_results == SearchCache(stop_cache, query, limit)
        IN  /\ ~(call.op = "search_location_by_name" /\ call.query = Probed)
            /\ IF EndsAtCache(cached_results)
               THEN AnswerFromCache(query, limit, cached_results)
               ELSE AnswerFromNetwork(query, limit, FetchFixed(query, limit),
                                      MaxCache)

NextFixed ==
    \/ SearchFixed
    \/ Restart
    \/ Tick

SpecFixed == Init /\ [][NextFixed]_vars

\* C26: with a fixed upstream, search_location_by_name(q, n) gives the records
\* that it gives on an empty cache, which are those the upstream gives for
\* (q, n), whatever earlier searches for other queries have put into the
\* cache
C26_CacheIsTransparent ==
    call.op = "search_location_by_name" /\ call.query = Probed =>
        ret.v = FetchFixed(call.query, call.limit).v


----------------------------------------------------------------------------
(* search_location_by_coordinates: the stops within the radius             *)
(***************************************************************************)

\* a stop parsed from the response that has a coordinate pair, lies on the
\* meridian of the centre and is no farther than radius metres from it
InRadius(stop, longitude, latitude, radius) ==
    /\ stop.latitude # None /\ stop.longitude # None
    /\ Val(stop.longitude) = longitude
    /\ Abs(Val(stop.latitude) - latitude) <= 10 * radius

\* a coordinate search answers the response held in call
GeoAnswered ==
    /\ call.op = "received"
    /\ call'.op = "search_location_by_coordinates"
    /\ ret'.kind = "list"

\* C27: search_location_by_coordinates returns every stop parsed from the
\* upstream response that has a coordinate pair, a latitude or longitude of
\* 0 included, and whose distance from the centre is <= radius
C27_CompleteWithinRadius ==
    [][GeoAnswered =>
          LET all_results == ParseLocationResults(call.raw)
          IN  \A i \in 1..Len(all_results) :
                  InRadius(all_results[i], call'.longitude, call'.latitude,
                           call'.radius)
                      => \E j \in 1..Len(ret'.v) :
                             ret'.v[j].stop_id = all_results[i].stop_id]_vars


\* _add_to_cache ran in this step
Merged == call'.op = "_add_to_cache" /\ now' = now

\* the records the cache held are its first records still, unaltered
OldRecordsKept ==
    /\ Len(stop_cache') >= Len(stop_cache)
    /\ SubSeq(stop_cache', 1, Len(stop_cache)) = stop_cache

\* every stop of the merged batch was cached already
AllCached ==
    \A j \in 1..Len(call'.stops) :
        call'.stops[j].stop_id \in ExistingIds(stop_cache)

\* the batch merged in this step is the one merged last
MergedAgain == call.op = "_add_to_cache" /\ call'.stops = call.stops

\* C28: _add_to_cache never removes, reorders or alters the records already
\* cached, it only appends; merging a batch whose stops are all cached
\* leaves the cache and the file unchanged, and so does merging the batch
\* that was merged last
C28_MergeOnlyAppends ==
    [][Merged =>
          /\ OldRecordsKept
          /\ AllCached => stop_cache' = stop_cache /\ file' = file
          /\ MergedAgain => stop_cache' = stop_cache /\ file' = file]_vars

\* a batch of cached stops was merged again, at a later hour than the one
\* at which the file was written
C28_Witness ==
    /\ call.op = "_add_to_cache" /\ call.stops # <<>>
    /\ ret.added = 0
    /\ Len(stop_cache) > SaveBatch
    /\ file # None /\ now > Val(file).timestamp


----------------------------------------------------------------------------
(* Coordinate searches and name searches on one client                     *)
(***************************************************************************)

\* the responses the upstream service gives to a coordinate search: "aa",
\* "ab" with "Ba", "bb"
NearbyResponses ==
    << <<GeoCatalog[1]>>, <<GeoCatalog[2], GeoCatalog[7]>>, <<GeoCatalog[4]>> >>

\* search_location_by_coordinates(1, latitude, radius)
SearchNearby ==
    \E k \in 1..Len(NearbyResponses), i \in 1..Len(CenterLatitudes),
       r \in 1..Len(Radii) :
        \/ GeoSearchFails(CenterLatitudes[i], Radii[r])
        \/ GeoSearchAnswers(CenterLatitudes[i], Radii[r],
                            ParseLocationResults(NearbyResponses[k]))

\* search_location_by_name(query, limit); the upstream service answers as in
\* FetchFixed
SearchNamed ==
    \E k \in 1..Len(Queries), limit \in 1..MaxLimit :
        LET query == Queries[k]
            cached_results == SearchCache(stop_cache, query, limit)
        IN  IF EndsAtCache(cached_results)
            THEN AnswerFromCache(query, limit, cached_results)
            ELSE AnswerFromNetwork(query, limit, FetchFixed(query, limit),
                                   MaxCache + Len(GeoCatalog))

NextNearby ==
    \/ SearchNearby
    \/ SearchNamed

SpecNearby == Init /\ [][NextNearby]_vars

\* C29: a record that a name search returns from the cache carries no
\* distance annotation of an earlier coordinate search
C29_NoDistanceFromCache ==
    (call.op = "search_location_by_name" /\ ret.kind = "list" /\ ~ret.net) =>
        \A j \in 1..Len(ret.v) : ret.v[j].distance = None


----------------------------------------------------------------------------
(* The job status statement by statement: lines 28 to 31 of                *)
(* build_cache_background are four assignments, and a status request or    *)
(* another thread may run between any two of them                          *)
(***************************************************************************)

\* the values of 'cities' in the JSON bodies of the build requests: ["a"]
\* and ["a", "B"]
ShortAndLong == <<Some(<<(<<97>>)>>), Some(<<(<<97>>), (<<66>>)>>)>>

\* build_cache() with one of these lists
BuildCacheOf == BuildFrom(ShortAndLong, MaxBuilds)

\* line 28: cache_build_progress['running'] = True
RefreshSetRunning(t) ==
    /\ IsRefresh(threads[t]) /\ threads[t].pc = "start"
    /\ cache_build_progress' = [cache_build_progress EXCEPT !.running = TRUE]
    /\ Goto(t, "total")
    /\ UNCHANGED <<now, stop_cache, cache_timestamp, file, call, ret>>

\* line 29: cache_build_progress['total'] = len(cities), which raises when
\* cities is no list
RefreshSetTotal(t) ==
    /\ IsRefresh(threads[t]) /\ threads[t].pc = "total"
    /\ IF threads[t].cities = None
       THEN /\ Goto(t, "done")
            /\ UNCHANGED cache_build_progress
       ELSE /\ cache_build_progress' =
                   [cache_build_progress EXCEPT
                       !.total = Len(Val(threads[t].cities))]
            /\ Goto(t, "current")
    /\ UNCHANGED <<now, stop_cache, cache_timestamp, file, call, ret>>

\* lines 30 and 31: current = 0 and error = None
RefreshSetCurrent(t) ==
    /\ IsRefresh(threads[t]) /\ threads[t].pc = "current"
    /\ cache_build_progress' =
           [cache_build_progress EXCEPT !.current = 0, !.error = None]
    /\ Goto(t, "check")
    /\ UNCHANGED <<now, stop_cache, cache_timestamp, file, call, ret>>

NextStatus ==
    \/ BuildCacheOf
    \/ StopCacheBuild
    \/ \E t \in 1..Len(threads) : RefreshSetRunning(t)
    \/ \E t \in 1..Len(threads) : RefreshSetTotal(t)
    \/ \E t \in 1..Len(threads) : RefreshSetCurrent(t)
    \/ \E t \in 1..Len(threads) : RefreshCheck(t)
    \/ \E t \in 1..Len(threads) : RefreshFetch(t)
    \/ \E t \in 1..Len(threads) : AddToCacheRead(t)
    \/ \E t \in 1..Len(threads) : AddToCacheExtend(t)
    \/ \E t \in 1..Len(threads) : AddToCacheSave(t)
    \/ \E t \in 1..Len(threads) : RefreshSleep(t)
    \/ \E t \in 1..Len(threads) : RefreshFinally(t)

SpecStatus == Init /\ [][NextStatus]_vars

\* C30: in every reachable state of the job status, 0 <= current <= total
C30_CurrentWithinTotal ==
    /\ 0 <= cache_build_progress.current
    /\ cache_build_progress.current <= cache_build_progress.total

====
